---- MODULE Spec2Model ----
(***************************************************************************)
(* A model of the consensus / layout-merge core of cybmf:                  *)
(*   - the quality codec              (BCFastq.pyx, MPA layout)            *)
(*   - the Fisher-flatten base caller (BCFastq.pyx)                        *)
(*   - the alignment layout model     (MPA: LayoutPos, PyLayout)           *)
(*   - the mate-pair layout merger    (MPA: cMergeLayoutsToList, ...)      *)
(*   - the barcode rescue dictionaries (BCFastq.pyx)                       *)
(* Characters are modelled by their ASCII codes, as the source does:       *)
(*   A=65 C=67 G=71 T=84 N=78 D=68 ; M=77 I=73 D=68 N=78 S=83 H=72 P=80    *)
(*   '='=61 X=88.                                                          *)
(***************************************************************************)
EXTENDS Integers, Sequences, FiniteSets, TLC

VARIABLES
    qualArr,    \* codec: the integer quality array handed to an encoder
    qualStr,    \* codec: the character codes the encoder produced
    encoder,    \* codec: which encoder produced qualStr ("none" before)
    fam,        \* base caller: the family R, a list of fastq records
    cons,       \* base caller: the consolidated record a routine returned
    pos1,       \* position merge: first argument of cMergePositions
    pos2,       \* position merge: second argument of cMergePositions
    mergedPos,  \* position merge: the LayoutPos that cMergePositions returned
    alnRec,     \* CIGAR: the aligned read handed to makeLayoutTuple
    layout,     \* CIGAR: the positions makeLayoutTuple built from alnRec
    cigarStr,   \* CIGAR: the string cGetCigarString made of layout
    L1,         \* layout merge: first argument of MergeLayoutsToLayout
    L2,         \* layout merge: second argument of MergeLayoutsToLayout
    mergeRet,   \* layout merge: outcome of MergeLayoutsToLayout
    stdout,     \* layout merge: what MPA2stdout wrote for the pair
    rescueArgs, \* barcode rescue: BarcodeHistDict, minFam and n
    rescueRet,  \* barcode rescue: (rescueHistDict, TrueFamDict)
    pc,         \* background call: where the calling function is
    proc,       \* background call: exit status of the child, <<>> while it runs
    returncode, \* background call: Popen.returncode, <<>> for None
    checks,     \* background call: the local counter of the polling loop
    polls,      \* background call: number of poll() calls made so far
    exc,        \* background call: the exception raised, <<>> if none
    inFq,       \* consolidation: the records of the input fastq
    fqPos,      \* consolidation: how many records groupby has consumed
    StringList, \* consolidation: consensus records waiting to be written
    numproc,    \* consolidation: number of families processed
    SetSize,    \* consolidation: number of records to write at once
    outputHandle, \* consolidation: the records written to the output file
    consPc,     \* consolidation: where singleFastqConsolidate is
    shadeArgs,  \* rescue shading: rescueDict, TrueFamDict and head
    inHandles,  \* rescue shading: the input triples (rec1, rec2, index_read)
    shadePos,   \* rescue shading: how many triples have been read
    outHandles, \* rescue shading: the pairs written so far
    shadePc,    \* rescue shading: where RescuePairedFastqShading is
    bamArgs,    \* BAM rescue: mmlim, bLen and the reading of a repeated tag
    inGroup,    \* BAM rescue: the records of one group as read from the BAM
    recList,    \* BAM rescue: the records of the group, as they are now
    output_bam, \* BAM rescue: the records written to the output BAM
    fq_text,    \* BAM rescue: the records written to the realignment fastq
    bamPc       \* BAM rescue: where BamRescue is

vars == <<qualArr, qualStr, encoder, fam, cons, pos1, pos2, mergedPos,
          alnRec, layout, cigarStr, L1, L2, mergeRet, stdout, rescueArgs,
          rescueRet, pc, proc, returncode, checks, polls, exc, inFq, fqPos,
          StringList, numproc, SetSize, outputHandle, consPc, shadeArgs,
          inHandles, shadePos, outHandles, shadePc, bamArgs, inGroup, recList,
          output_bam, fq_text, bamPc>>

codecVars == <<qualArr, qualStr, encoder>>

callerVars == <<fam, cons>>

posVars == <<pos1, pos2, mergedPos>>

cigarVars == <<alnRec, layout, cigarStr>>

mergeVars == <<L1, L2, mergeRet, stdout>>

rescueVars == <<rescueArgs, rescueRet>>

pollVars == <<pc, proc, returncode, checks, polls, exc>>

groupVars == <<inFq, fqPos, StringList, numproc, SetSize, outputHandle, consPc>>

shadeVars == <<shadeArgs, inHandles, shadePos, outHandles, shadePc>>

bamVars == <<bamArgs, inGroup, recList, output_bam, fq_text, bamPc>>

stageVars == <<pollVars, groupVars, shadeVars, bamVars>>

NoCons == [routine |-> "none"]

\* the value of a result variable before its operation has run
NoResult == [status |-> "none"]

\* the value of the variables of a part of the program that is not running
Idle == [status |-> "idle"]

----------------------------------------------------------------------------
(* Generic helpers *)

Max2(a, b) == IF a >= b THEN a ELSE b

Min2(a, b) == IF a <= b THEN a ELSE b

RECURSIVE SumSeq(_)
SumSeq(s) == IF s = <<>> THEN 0 ELSE Head(s) + SumSeq(Tail(s))

\* Python's s[a:b] for 0 <= a, on a 0-based list stored as a 1-based sequence
PySlice(s, a, b) ==
    LET hi == Min2(b, Len(s))
    IN  IF a >= hi THEN <<>> ELSE [k \in 1..(hi - a) |-> s[a + k]]

----------------------------------------------------------------------------
(* LayoutPos: one layout position (MPA) *)

\* LayoutPos.__init__: a base of "N" (78) forces the quality to 0
LayoutPos(pos, readPos, base, operation, quality, agreement, merged, mergeAgreed) ==
    [pos |-> pos, readPos |-> readPos, operation |-> operation, base |-> base,
     quality |-> IF base # 78 THEN quality ELSE 0,
     agreement |-> agreement, merged |-> merged, mergeAgreed |-> mergeAgreed]

----------------------------------------------------------------------------
(* Quality codec *)

\* bound: number of entries of the quality arrays handed to the encoders
QualArrLen == 1

\* bound: largest quality value handed to the encoders
MaxQual == 200

\* PH2CHR_TRANS: the translation table of the "safe" encoder, byte i -> chr(i + 33)
PH2CHR_TRANS(i) == i + 33

PyArr2QualStrOffByOne(arr) ==
    [k \in 1..Len(arr) |-> IF arr[k] < 95 THEN arr[k] + 33 ELSE 126]

\* PyArr2QualStr: i + 33 if(i < 94) else 126
PyArr2QualStr(arr) ==
    [k \in 1..Len(arr) |-> IF arr[k] < 94 THEN arr[k] + 33 ELSE 126]

\* cQualArr2QualStr: (tmpInt if(tmpInt < 94) else 93), then translate(PH2CHR_TRANS)
cQualArr2QualStr(arr) ==
    [k \in 1..Len(arr) |-> PH2CHR_TRANS(IF arr[k] < 94 THEN arr[k] ELSE 93)]

\* PyLayout.cGetQual: qualities of the positions with quality > -1 and
\* operation != 66
cGetQual(positions) ==
    LET Keep(p) == p.quality > -1 /\ p.operation # 66
        kept == SelectSeq(positions, Keep)
    IN  [k \in 1..Len(kept) |-> kept[k].quality]

\* PyLayout.cGetQualString: i + 33 if(i < 94) else 126 over cGetQual()
cGetQualString(positions) ==
    LET q == cGetQual(positions)
    IN  [k \in 1..Len(q) |-> IF q[k] < 94 THEN q[k] + 33 ELSE 126]

\* a layout of matched "A" bases that carries the given qualities
QualLayout(arr) ==
    [k \in 1..Len(arr) |-> LayoutPos(k - 1, k - 1, 65, 77, arr[k], 1, FALSE, 1)]

CodecIdle ==
    /\ qualArr = <<>>
    /\ qualStr = <<>>
    /\ encoder = "idle"

CallerIdle ==
    /\ fam = <<>>
    /\ cons = NoCons

PosIdle ==
    /\ pos1 = Idle
    /\ pos2 = Idle
    /\ mergedPos = Idle

CigarIdle ==
    /\ alnRec = Idle
    /\ layout = Idle
    /\ cigarStr = Idle

MergeIdle ==
    /\ L1 = Idle
    /\ L2 = Idle
    /\ mergeRet = Idle
    /\ stdout = Idle

RescueIdle ==
    /\ rescueArgs = Idle
    /\ rescueRet = Idle

PollIdle ==
    /\ pc = "idle"
    /\ proc = <<>>
    /\ returncode = <<>>
    /\ checks = 0
    /\ polls = 0
    /\ exc = <<>>

GroupIdle ==
    /\ inFq = <<>>
    /\ fqPos = 0
    /\ StringList = <<>>
    /\ numproc = 0
    /\ SetSize = 0
    /\ outputHandle = <<>>
    /\ consPc = "idle"

ShadeIdle ==
    /\ shadeArgs = Idle
    /\ inHandles = <<>>
    /\ shadePos = 0
    /\ outHandles = <<>>
    /\ shadePc = "idle"

BamIdle ==
    /\ bamArgs = Idle
    /\ inGroup = <<>>
    /\ recList = <<>>
    /\ output_bam = <<>>
    /\ fq_text = <<>>
    /\ bamPc = "idle"

StagesIdle == PollIdle /\ GroupIdle /\ ShadeIdle /\ BamIdle

QualInit ==
    /\ qualArr \in [1..QualArrLen -> 0..MaxQual]
    /\ qualStr = <<>>
    /\ encoder = "none"
    /\ CallerIdle
    /\ PosIdle
    /\ CigarIdle
    /\ MergeIdle
    /\ RescueIdle
    /\ StagesIdle

CallPyArr2QualStr ==
    /\ encoder = "none"
    /\ qualStr' = PyArr2QualStr(qualArr)
    /\ encoder' = "PyArr2QualStr"
    /\ UNCHANGED <<qualArr, callerVars, posVars, cigarVars, mergeVars, rescueVars, stageVars>>

CallcQualArr2QualStr ==
    /\ encoder = "none"
    /\ qualStr' = cQualArr2QualStr(qualArr)
    /\ encoder' = "cQualArr2QualStr"
    /\ UNCHANGED <<qualArr, callerVars, posVars, cigarVars, mergeVars, rescueVars, stageVars>>

CallcGetQualString ==
    /\ encoder = "none"
    /\ qualStr' = cGetQualString(QualLayout(qualArr))
    /\ encoder' = "cGetQualString"
    /\ UNCHANGED <<qualArr, callerVars, posVars, cigarVars, mergeVars, rescueVars, stageVars>>

QualNext ==
    \/ CallPyArr2QualStr
    \/ CallcQualArr2QualStr
    \/ CallcGetQualString

SpecQual == QualInit /\ [][QualNext]_vars

\* C9: for 0 <= q <= MaxQual every encoder emits one character per quality,
\* with code in [33,126], and the code minus 33 is min(q, 93).
C9_CodecRoundTrip ==
    encoder \notin {"none", "idle"} =>
        /\ Len(qualStr) = Len(qualArr)
        /\ \A k \in 1..Len(qualArr) :
              /\ qualStr[k] \in 33..126
              /\ qualStr[k] - 33 = Min2(qualArr[k], 93)

\* a saturating quality has been encoded by the layout encoder
C9_Witness ==
    /\ encoder = "cGetQualString"
    /\ qualArr[1] = 200
    /\ qualStr[1] = 126

----------------------------------------------------------------------------
(* Statistical base caller (BCFastq.pyx) *)

\* bound: largest family size
MaxRecs == 2

\* bound: largest read length
MaxLen == 2

\* the bases a read may show: A C G T N
Bases == {65, 67, 71, 84, 78}

\* the Phred qualities the model's reads carry
PhredSet == {2, 30}

\* cs_to_ph: quality string -> Phred integers (character code minus 33)
cs_to_ph(quality) == [k \in 1..Len(quality) |-> quality[k] - 33]

\* a fastq record of the given length
FastqRecs(len) ==
    [sequence : [1..len -> Bases],
     quality  : [1..len -> {q + 33 : q \in PhredSet}]]

\* CHI2_FROM_PHRED: -2 ln(10^(-q/10)) = q * ln(10) / 5, in units of 10^-4
CHI2_FROM_PHRED(q) == q * 4605

\* INV_CHI2_FROM_PHRED: -2 ln(1 - 10^(-q/10)), in units of 10^-4
INV_CHI2_FROM_PHRED(q) ==
    CASE q = 2  -> 19937
      [] q = 30 -> 20
      [] OTHER  -> 0

\* argmax4: index of the largest of four sums, the first one on ties
argmax4(a, c, g, t) ==
    IF a >= c /\ a >= g /\ a >= t THEN 0
    ELSE IF c >= g /\ c >= t THEN 1
    ELSE IF g >= t THEN 2
    ELSE 3

\* ARGMAX_CONV / ARGMAX_TRANSLATE_STRING: 0,1,2,3 -> "ACGT"
ARGMAX_CONV(i) == <<65, 67, 71, 84>>[i + 1]

\* -10 * log10(igamc_pvalues(count, chiSum)) + 0.5, truncated: the value for
\* a single observation, where the p-value is exp(-chiSum / 2)
FisherPhred(count, chiSum) ==
    IF count <= 0 \/ chiSum <= 0 THEN 0 ELSE (chiSum + 2302) \div 4605

\* SumArraySet: counts and chiSums are calloc'ed, 4 * rLen entries each
SumArraySet(rLen) ==
    [counts  |-> [j \in 0..(4 * rLen - 1) |-> 0],
     chiSums |-> [j \in 0..(4 * rLen - 1) |-> 0],
     ndIndex |-> 0]

BaseSlotSwapped(base, offset, rLen) ==
    CASE base = 67 -> offset + 2 * rLen
      [] base = 71 -> offset + rLen
      [] base = 84 -> offset + 3 * rLen
      [] base = 65 -> offset
      [] OTHER     -> -1

\* the slot of the sums that an observed base selects (-1: none, an "N")
BaseSlot(base, offset, rLen) ==
    CASE base = 67 -> offset + rLen
      [] base = 71 -> offset + 2 * rLen
      [] base = 84 -> offset + 3 * rLen
      [] base = 65 -> offset
      [] OTHER     -> -1

\* one pass of the first loop of cFisherFlatten: the branch of the observed
\* base sets ndIndex and adds to the chiSums; an "N" does neither; then
\* counts[ndIndex] is incremented, whatever the base was
FisherStep(Sums, base, qual, offset, rLen) ==
    LET slot == BaseSlot(base, offset, rLen)
        nd   == IF slot < 0 THEN Sums.ndIndex ELSE slot
    IN  [counts  |-> [Sums.counts EXCEPT ![nd] = @ + 1],
         chiSums |-> IF slot < 0 THEN Sums.chiSums
                     ELSE [j \in 0..(4 * rLen - 1) |->
                              IF j = slot
                              THEN Sums.chiSums[j] + CHI2_FROM_PHRED(qual)
                              ELSE IF j % rLen = offset
                              THEN Sums.chiSums[j] + INV_CHI2_FROM_PHRED(qual)
                              ELSE Sums.chiSums[j]],
         ndIndex |-> nd]

\* the first loop of cFisherFlatten over the flattened Seqs / Quals
RECURSIVE FisherLoop(_, _, _, _, _)
FisherLoop(Sums, Seqs, Quals, rLen, query_index) ==
    IF query_index >= Len(Seqs) THEN Sums
    ELSE FisherLoop(FisherStep(Sums, Seqs[query_index + 1],
                               Quals[query_index + 1],
                               query_index % rLen, rLen),
                    Seqs, Quals, rLen, query_index + 1)

\* cFisherFlatten: Seq, Qual and Agree of the consensus
cFisherFlatten(Seqs, Quals, rLen, nRecs) ==
    LET Sums == FisherLoop(SumArraySet(rLen), Seqs, Quals, rLen, 0)
        am(i) == argmax4(Sums.chiSums[i], Sums.chiSums[i + rLen],
                         Sums.chiSums[i + 2 * rLen], Sums.chiSums[i + 3 * rLen])
        nd(i) == i + am(i) * rLen
        tq(i) == FisherPhred(Sums.counts[nd(i)], Sums.chiSums[nd(i)])
    IN  [Seq   |-> [k \in 1..rLen |-> ARGMAX_CONV(am(k - 1))],
         Qual  |-> [k \in 1..rLen |-> IF tq(k - 1) > 0 THEN tq(k - 1) ELSE 3114],
         Agree |-> [k \in 1..rLen |-> Sums.counts[nd(k - 1)]]]

\* the rows of a 2-D array, one after the other (C order)
RECURSIVE Flatten2D(_)
Flatten2D(rows) == IF rows = <<>> THEN <<>> ELSE Head(rows) \o Flatten2D(Tail(rows))

\* cRecListTo2DCharArray, flattened
SeqArray(R) == Flatten2D([r \in 1..Len(R) |-> R[r].sequence])

\* np.array([cs_to_ph(rec.quality) for rec in R]), flattened
QualArray(R) == Flatten2D([r \in 1..Len(R) |-> cs_to_ph(R[r].quality)])

\* MaxOriginalQuals / arrmax: the largest original quality at each position
MaxOriginalQuals(R, rLen) ==
    [k \in 1..rLen |->
        CHOOSE m \in {cs_to_ph(R[r].quality)[k] : r \in 1..Len(R)} :
            \A r \in 1..Len(R) : cs_to_ph(R[r].quality)[k] <= m]

\* "1" + "".join([",1"] * (rLen - 1)): the entries of the FA tag of a
\* family of one; a list repeated a negative number of times is empty
SingletonFA(rLen) == <<1>> \o [k \in 1..(rLen - 1) |-> 1]

\* the nRecs == 1 branch shared by the three routines
SingletonRecord(routine, rec, rLen) ==
    [routine |-> routine, error |-> FALSE,
     sequence |-> rec.sequence, quality |-> rec.quality,
     FM |-> 1, ND |-> 0, FA |-> SingletonFA(rLen), PV |-> cs_to_ph(rec.quality)]

ErrorRecord(routine) == [routine |-> routine, error |-> TRUE]

\* cFastFisherFlattening
cFastFisherFlattening(R) ==
    LET nRecs == Len(R)
        rLen  == Len(R[1].sequence)
        ret   == cFisherFlatten(SeqArray(R), QualArray(R), rLen, nRecs)
    IN  IF nRecs = 1 THEN SingletonRecord("cFastFisherFlattening", R[1], rLen)
        ELSE IF rLen = 0 THEN ErrorRecord("cFastFisherFlattening")
        ELSE [routine |-> "cFastFisherFlattening", error |-> FALSE,
              sequence |-> ret.Seq, quality |-> MaxOriginalQuals(R, rLen),
              FM |-> nRecs, ND |-> nRecs * rLen - SumSeq(ret.Agree),
              FA |-> ret.Agree, PV |-> ret.Qual]

\* cFastFisherFlattenRescale, given what ParseAndRescaleQuals returned
cFastFisherFlattenRescale(R, quals) ==
    LET nRecs == Len(R)
        rLen  == Len(R[1].sequence)
        ret   == cFisherFlatten(SeqArray(R), quals, rLen, nRecs)
    IN  IF nRecs = 1 THEN SingletonRecord("cFastFisherFlattenRescale", R[1], rLen)
        ELSE IF rLen = 0 THEN ErrorRecord("cFastFisherFlattenRescale")
        ELSE [routine |-> "cFastFisherFlattenRescale", error |-> FALSE,
              sequence |-> ret.Seq, quality |-> PyArr2QualStr(ret.Qual),
              FM |-> nRecs, ND |-> nRecs * rLen - SumSeq(ret.Agree),
              FA |-> ret.Agree, PV |-> ret.Qual]

\* cCompareFqRecsFast with minPVFrac = 0.1, minFAFrac = 0.2, minMaxFA = 0.9
cCompareFqRecsFast(R) ==
    LET nRecs == Len(R)
        rLen  == Len(R[1].sequence)
        qsum(b, k) == SumSeq([r \in 1..nRecs |->
                        IF R[r].sequence[k] = b THEN cs_to_ph(R[r].quality)[k] ELSE 0])
        am(k) == argmax4(qsum(65, k), qsum(67, k), qsum(71, k), qsum(84, k))
        newSeq == [k \in 1..rLen |-> ARGMAX_CONV(am(k))]
        amax == [k \in 1..rLen |-> qsum(newSeq[k], k)]
        tmpFlt == CHOOSE m \in {amax[k] : k \in 1..rLen} :
                      \A k \in 1..rLen : amax[k] <= m
        kicked == [k \in 1..rLen |-> IF 10 * amax[k] < tmpFlt THEN 0 ELSE amax[k]]
        FA == [k \in 1..rLen |->
                 Cardinality({r \in 1..nRecs : R[r].sequence[k] = newSeq[k]})]
        nix == \/ \E k \in 1..rLen : 5 * FA[k] < nRecs
               \/ \A k \in 1..rLen : 10 * FA[k] < 9 * nRecs
        phredQuals == [k \in 1..rLen |->
                         IF nix \/ kicked[k] < 0 THEN 0 ELSE kicked[k]]
    IN  IF nRecs = 1 THEN SingletonRecord("cCompareFqRecsFast", R[1], rLen)
        ELSE IF rLen = 0 THEN ErrorRecord("cCompareFqRecsFast")
        ELSE [routine |-> "cCompareFqRecsFast", error |-> FALSE,
              sequence |-> newSeq, quality |-> cQualArr2QualStr(phredQuals),
              FM |-> nRecs, ND |-> nRecs * rLen - SumSeq(FA),
              FA |-> FA, PV |-> phredQuals]

CallerInit ==
    /\ \E nRecs \in 1..MaxRecs, rLen \in 0..MaxLen :
          fam \in [1..nRecs -> FastqRecs(rLen)]
    /\ cons = NoCons
    /\ CodecIdle
    /\ PosIdle
    /\ CigarIdle
    /\ MergeIdle
    /\ RescueIdle
    /\ StagesIdle

CallFastFisherFlattening ==
    /\ cons = NoCons
    /\ cons' = cFastFisherFlattening(fam)
    /\ UNCHANGED <<fam, codecVars, posVars, cigarVars, mergeVars, rescueVars, stageVars>>

\* ParseAndRescaleQuals copies from the address of the Rescaler's pointer
\* field, not from the buffer it points to: what the qualities of a family
\* of two or more are is not determined by the input
CallFastFisherFlattenRescale ==
    /\ cons = NoCons
    /\ \E quals \in [1..(Len(fam) * Len(fam[1].sequence)) -> PhredSet] :
          cons' = cFastFisherFlattenRescale(fam, quals)
    /\ UNCHANGED <<fam, codecVars, posVars, cigarVars, mergeVars, rescueVars, stageVars>>

CallCompareFqRecsFast ==
    /\ cons = NoCons
    /\ cons' = cCompareFqRecsFast(fam)
    /\ UNCHANGED <<fam, codecVars, posVars, cigarVars, mergeVars, rescueVars, stageVars>>

CallerNext ==
    \/ CallFastFisherFlattening
    \/ CallFastFisherFlattenRescale
    \/ CallCompareFqRecsFast

SpecCaller == CallerInit /\ [][CallerNext]_vars

famLen == Len(fam[1].sequence)

\* C1: a family of one record of length L is emitted with that record's
\* sequence and quality string, FM = 1, ND = 0 and exactly L entries of FA,
\* each equal to 1.
C1_SingletonVerbatim ==
    (Len(fam) = 1 /\ cons # NoCons) =>
        /\ ~cons.error
        /\ cons.sequence = fam[1].sequence
        /\ cons.quality = fam[1].quality
        /\ cons.FM = 1
        /\ cons.ND = 0
        /\ Len(cons.FA) = famLen
        /\ \A k \in 1..Len(cons.FA) : cons.FA[k] = 1

\* a family of two or more reads, all identical, went through
\* cFastFisherFlattening and a record came back
IdenticalFlattened ==
    /\ Len(fam) >= 2
    /\ \A r \in 1..Len(fam) : fam[r] = fam[1]
    /\ cons # NoCons
    /\ cons.routine = "cFastFisherFlattening"
    /\ ~cons.error

\* C2 as stated: for every family of N >= 2 identical reads over A,C,G,T,N
\* the Fisher-flatten consensus sequence is the common sequence and ND = 0.
C2_IdenticalConsensus_Original ==
    IdenticalFlattened =>
        /\ cons.sequence = fam[1].sequence
        /\ cons.ND = 0

\* C2 amended: for every family of N >= 2 identical reads whose bases are all
\* among A,C,G,T and whose qualities all weigh the observed base above its
\* alternatives (error probability below one half), the Fisher-flatten
\* consensus sequence is the common sequence and ND = 0.
C2_IdenticalConsensus ==
    (/\ IdenticalFlattened
     /\ \A k \in 1..famLen :
           /\ fam[1].sequence[k] # 78
           /\ CHI2_FROM_PHRED(cs_to_ph(fam[1].quality)[k])
                 > INV_CHI2_FROM_PHRED(cs_to_ph(fam[1].quality)[k]))
    =>  /\ cons.sequence = fam[1].sequence
        /\ cons.ND = 0

\* two identical reads "CT" at quality 30 were flattened to "CT"
C2_Witness ==
    /\ IdenticalFlattened
    /\ fam[1].sequence = <<67, 84>>
    /\ cs_to_ph(fam[1].quality) = <<30, 30>>
    /\ cons.sequence = <<67, 84>>
    /\ cons.ND = 0

\* C3: the agreement FA[i] that the Fisher flattening emits is the number of
\* reads whose base at i is the consensus base at i (an "N" adds to no
\* count), and ND = N * L - sum(FA) is the number of read bases that differ
\* from the consensus.
C3_AgreementCounts ==
    (/\ Len(fam) >= 2
     /\ cons # NoCons
     /\ cons.routine = "cFastFisherFlattening"
     /\ ~cons.error)
    =>  /\ \A k \in 1..famLen :
              cons.FA[k] =
                  Cardinality({r \in 1..Len(fam) :
                                  fam[r].sequence[k] = cons.sequence[k]})
        /\ cons.ND = Len(fam) * famLen - SumSeq(cons.FA)
        /\ cons.ND =
              Cardinality({rk \in (1..Len(fam)) \X (1..famLen) :
                              fam[rk[1]].sequence[rk[2]] # cons.sequence[rk[2]]})

----------------------------------------------------------------------------
(* Merging two layout positions (MPA: cMergePositions) *)

\* the qualities a read position carries in the position-merge inputs
PosQuals == {0, 10, 30}

\* the agreement counts a read position carries in the position-merge inputs
PosAgreements == {1, 2}

\* the operations of the positions that makeLayoutTuple builds for M, I, S, D
PosOps == {77, 73, 83, 68}

\* MergeAgreedQualities: the quality of two agreeing observations, never
\* below either of them
MergeAgreedQualities(q1, q2) == Max2(q1, q2) + Max2(0, Min2(q1, q2))

\* MergeDiscQualities: the quality of two disagreeing observations, never
\* above the higher of them
MergeDiscQualities(q1, q2) == Max2(q1, q2) - Max2(0, Min2(q1, q2))

\* cMergePositions, bases equal
MergeEqualBase(p1, p2) ==
    IF p2.operation = p1.operation
    THEN LayoutPos(p1.pos, p1.readPos, p1.base, p1.operation,
                   MergeAgreedQualities(p1.quality, p2.quality),
                   p1.agreement + p2.agreement, TRUE, 2)
    ELSE IF p2.operation = 83
    THEN LayoutPos(p1.pos, p1.readPos, p1.base, p1.operation,
                   MergeAgreedQualities(p1.quality, p2.quality),
                   p1.agreement + p2.agreement, TRUE, 2)
    ELSE IF p1.operation = 83
    THEN LayoutPos(p2.pos, p1.readPos, p1.base, p2.operation,
                   MergeAgreedQualities(p1.quality, p2.quality),
                   p1.agreement + p2.agreement, TRUE, 2)
    ELSE LayoutPos(p1.pos, p1.readPos, 78, 78, -137, -137, TRUE, 0)

MergeEqualOpLowerWins(p1, p2) ==
    IF p1.quality < p2.quality
    THEN LayoutPos(p1.pos, p1.readPos, p1.base, p1.operation,
                   MergeDiscQualities(p1.quality, p2.quality),
                   p1.agreement, TRUE, 0)
    ELSE LayoutPos(p1.pos, p1.readPos, p2.base, p1.operation,
                   MergeDiscQualities(p2.quality, p1.quality),
                   p2.agreement, TRUE, 0)

\* cMergePositions, bases differ and operations equal
MergeEqualOp(p1, p2) ==
    IF p1.quality > p2.quality
    THEN LayoutPos(p1.pos, p1.readPos, p1.base, p1.operation,
                   MergeDiscQualities(p1.quality, p2.quality),
                   p1.agreement, TRUE, 0)
    ELSE LayoutPos(p1.pos, p1.readPos, p2.base, p1.operation,
                   MergeDiscQualities(p2.quality, p1.quality),
                   p2.agreement, TRUE, 0)

\* cMergePositions, bases differ and operations differ
MergeDiffOp(p1, p2) ==
    IF p2.base = 78 \/ p2.operation = 83
    THEN LayoutPos(p1.pos, p1.readPos, p1.base, p1.operation, p1.quality,
                   p1.agreement, TRUE, 0)
    ELSE LayoutPos(p1.pos, p1.readPos, p1.base, 78, -137, -137, TRUE, 0)

cMergePositionsBoostOnDisagree(p1, p2) ==
    IF p1.operation = p2.operation
    THEN LayoutPos(p1.pos, p1.readPos, p1.base, p1.operation,
                   MergeAgreedQualities(p1.quality, p2.quality),
                   p1.agreement, TRUE, IF p1.base = p2.base THEN 2 ELSE 0)
    ELSE MergeDiffOp(p1, p2)

\* cMergePositions
cMergePositions(p1, p2) ==
    IF p1.base = p2.base THEN MergeEqualBase(p1, p2)
    ELSE IF p1.operation = p2.operation THEN MergeEqualOp(p1, p2)
    ELSE MergeDiffOp(p1, p2)

\* the positions CigarOpToLayoutPosList builds: a matched base carries its
\* reference coordinate, an inserted or clipped base carries -1, a deletion
\* carries base "D", quality -1 and agreement -1
ReadPositions(refPos, readPos) ==
    {LayoutPos(IF op = 77 THEN refPos ELSE -1, readPos, b, op, q, a, FALSE, 1) :
        op \in PosOps \ {68}, b \in {65, 67, 78}, q \in PosQuals,
        a \in PosAgreements}
    \cup {LayoutPos(refPos, -1, 68, 68, -1, -1, FALSE, 1)}

PosInit ==
    /\ pos1 \in ReadPositions(5, 0)
    /\ pos2 \in ReadPositions(5, 1)
    /\ mergedPos = NoResult
    /\ CodecIdle
    /\ CallerIdle
    /\ CigarIdle
    /\ MergeIdle
    /\ RescueIdle
    /\ StagesIdle

MergePositions ==
    /\ mergedPos = NoResult
    /\ mergedPos' = cMergePositions(pos1, pos2)
    /\ UNCHANGED <<pos1, pos2, codecVars, callerVars, cigarVars, mergeVars,
                   rescueVars, stageVars>>

PosNext == MergePositions

SpecPos == PosInit /\ [][PosNext]_vars

\* cMergePositions has run on two positions with the same operation
EqualOpMerged == mergedPos # NoResult /\ mergedPos # Idle
                 /\ pos1.operation = pos2.operation

\* C6: on two positions with equal operation, equal bases give a result with
\* that base and operation, the sum of the agreement counts and the
\* merged-agreement mark; differing bases give the base and agreement count of
\* the input with the higher quality and the merged-disagreement mark.
C6_EqualOpMerge ==
    EqualOpMerged =>
        /\ pos1.base = pos2.base =>
              /\ mergedPos.base = pos1.base
              /\ mergedPos.operation = pos1.operation
              /\ mergedPos.agreement = pos1.agreement + pos2.agreement
              /\ mergedPos.mergeAgreed = 2
        /\ pos1.base # pos2.base =>
              /\ mergedPos.mergeAgreed = 0
              /\ pos1.quality > pos2.quality =>
                    /\ mergedPos.base = pos1.base
                    /\ mergedPos.agreement = pos1.agreement
              /\ pos2.quality > pos1.quality =>
                    /\ mergedPos.base = pos2.base
                    /\ mergedPos.agreement = pos2.agreement
              /\ mergedPos.base \in {pos1.base, pos2.base}

\* a matched "C" at quality 30 met a matched "A" at quality 10, and the
\* result carries the "C" and its agreement count
C6_Witness ==
    /\ EqualOpMerged
    /\ pos1.operation = 77 /\ pos1.base = 65 /\ pos1.quality = 10
    /\ pos1.agreement = 1
    /\ pos2.base = 67 /\ pos2.quality = 30 /\ pos2.agreement = 2
    /\ mergedPos.base = 67
    /\ mergedPos.agreement = 2
    /\ mergedPos.mergeAgreed = 0

----------------------------------------------------------------------------
(* From an aligned read to a layout and back to a CIGAR (MPA) *)

\* bound: largest number of (operation, length) pairs of a CIGAR
MaxCigarOps == 4

\* bound: largest length of one CIGAR operation
MaxOpLen == 2

\* the BAM operation codes 0..8 stand for M I D N S H P = X
CigarOps == 0..8

\* CigarOpToCigarChar: BAM operation code -> character of "MIDNSHP=X"
CigarOpToCigarChar(cigarOp) == <<77, 73, 68, 78, 83, 72, 80, 61, 88>>[cigarOp + 1]

\* operations that consume a base of the read
ConsumesQuery(op) == op \in {0, 1, 4, 7, 8}

\* rec.aligned_pairs: one (x0, x1) pair per read base or reference base of
\* the alignment; hasq / hasr tell whether x0 / x1 is not None. M, = and X
\* pair a read base with a reference base, I and S give a read base alone,
\* D and N a reference base alone, H and P nothing.
RECURSIVE aligned_pairs(_, _, _, _)
aligned_pairs(cigar, k, qpos, rpos) ==
    IF k > Len(cigar) THEN <<>>
    ELSE LET op == cigar[k][1]
             l  == cigar[k][2]
         IN  IF op \in {0, 7, 8}
             THEN [i \in 1..l |-> [x0 |-> qpos + i - 1, x1 |-> rpos + i - 1,
                                   hasq |-> TRUE, hasr |-> TRUE]]
                  \o aligned_pairs(cigar, k + 1, qpos + l, rpos + l)
             ELSE IF op \in {1, 4}
             THEN [i \in 1..l |-> [x0 |-> qpos + i - 1, x1 |-> -1,
                                   hasq |-> TRUE, hasr |-> FALSE]]
                  \o aligned_pairs(cigar, k + 1, qpos + l, rpos)
             ELSE IF op \in {2, 3}
             THEN [i \in 1..l |-> [x0 |-> -1, x1 |-> rpos + i - 1,
                                   hasq |-> FALSE, hasr |-> TRUE]]
                  \o aligned_pairs(cigar, k + 1, qpos, rpos + l)
             ELSE aligned_pairs(cigar, k + 1, qpos, rpos)

\* the (x0, x1) pairs that one call of CigarOpToLayoutPosList walks
PairSlice(offset, cigarLen, r) ==
    PySlice(aligned_pairs(r.cigar, 1, 0, r.pos), offset, offset + cigarLen)

\* CigarOpToLayoutPosList raises when it has to index the read with None
CigarOpRaises(offset, cigarOp, cigarLen, r) ==
    \E k \in 1..Len(PairSlice(offset, cigarLen, r)) :
        /\ ~PairSlice(offset, cigarLen, r)[k].hasq
        /\ CigarOpToCigarChar(cigarOp) = 83

CigarOpToLayoutPosListClipAsInsert(offset, cigarOp, cigarLen, r) ==
    LET CigarChar == CigarOpToCigarChar(cigarOp)
        pairs == PairSlice(offset, cigarLen, r)
    IN  [k \in 1..Len(pairs) |->
            LET x0 == pairs[k].x0
                x1 == pairs[k].x1
            IN  IF pairs[k].hasr /\ pairs[k].hasq
                THEN LayoutPos(x1, x0, r.seq[x0 + 1], 77, r.quals[x0 + 1],
                               r.agrees[x0 + 1], FALSE, 1)
                ELSE IF pairs[k].hasq
                THEN LayoutPos(-1, x0, r.seq[x0 + 1], 73,
                               r.quals[x0 + 1], r.agrees[x0 + 1], FALSE, 1)
                ELSE LayoutPos(x1, -1, 68, 68, -1, -1, FALSE, 1)]

\* CigarOpToLayoutPosList
CigarOpToLayoutPosList(offset, cigarOp, cigarLen, r) ==
    LET CigarChar == CigarOpToCigarChar(cigarOp)
        pairs == PairSlice(offset, cigarLen, r)
    IN  [k \in 1..Len(pairs) |->
            LET x0 == pairs[k].x0
                x1 == pairs[k].x1
            IN  IF pairs[k].hasr /\ pairs[k].hasq
                THEN LayoutPos(x1, x0, r.seq[x0 + 1], 77, r.quals[x0 + 1],
                               r.agrees[x0 + 1], FALSE, 1)
                ELSE IF pairs[k].hasq
                THEN LayoutPos(-1, x0, r.seq[x0 + 1], CigarChar,
                               r.quals[x0 + 1], r.agrees[x0 + 1], FALSE, 1)
                ELSE LayoutPos(x1, -1, 68, 68, -1, -1, FALSE, 1)]

\* the loop of makeLayoutTuple from the i-th pair of rec.cigar on
RECURSIVE LayoutLoop(_, _, _, _, _)
LayoutLoop(r, i, offset, PosList, firstMapped) ==
    IF i > Len(r.cigar)
    THEN [status |-> "ok", PosList |-> PosList, firstMapped |-> firstMapped]
    ELSE LET pair == r.cigar[i]
         IN  IF CigarOpRaises(offset, pair[1], pair[2], r)
             THEN [status |-> "TypeError"]
             ELSE LayoutLoop(r, i + 1, offset + pair[2],
                      PosList \o CigarOpToLayoutPosList(offset, pair[1], pair[2], r),
                      IF pair[1] = 0 /\ firstMapped < 0 THEN offset
                      ELSE firstMapped)

\* makeLayoutTuple
makeLayoutTuple(r) == LayoutLoop(r, 1, 0, <<>>, -1)

\* PyLayout.getOperations
getOperations(positions) == [k \in 1..Len(positions) |-> positions[k].operation]

\* itertools.groupby over the operations: the runs of equal operations, each
\* as <<operation, length>>
RECURSIVE groupby(_)
groupby(ops) ==
    IF ops = <<>> THEN <<>>
    ELSE LET rest == groupby(Tail(ops))
         IN  IF rest # <<>> /\ rest[1][1] = Head(ops)
             THEN <<<<Head(ops), rest[1][2] + 1>>>> \o Tail(rest)
             ELSE <<<<Head(ops), 1>>>> \o rest

\* opLenToStr: the text of one run, its length followed by its operation
\* character
opLenToStr(k, l) == <<l, k>>

\* PyLayout.cGetCigarString: the runs of getOperations() through opLenToStr
cGetCigarString(positions) ==
    LET g == groupby(getOperations(positions))
    IN  [k \in 1..Len(g) |-> opLenToStr(g[k][1], g[k][2])]

\* the text of a list of (operation code, length) pairs, as the aligner
\* wrote it
CigarText(cigar) ==
    [k \in 1..Len(cigar) |-> <<cigar[k][2], CigarOpToCigarChar(cigar[k][1])>>]

\* number of read bases a CIGAR accounts for
RECURSIVE QueryLen(_)
QueryLen(cigar) ==
    IF cigar = <<>> THEN 0
    ELSE (IF ConsumesQuery(Head(cigar)[1]) THEN Head(cigar)[2] ELSE 0)
         + QueryLen(Tail(cigar))

\* a CIGAR the SAM format allows: adjacent operations differ, hard clips only
\* at the ends, soft clips only at the ends inside the hard clips, and at
\* least one aligned base
WellFormed(cigar) ==
    /\ \A k \in 1..(Len(cigar) - 1) : cigar[k][1] # cigar[k + 1][1]
    /\ \A k \in 1..Len(cigar) : cigar[k][1] = 5 => k \in {1, Len(cigar)}
    /\ \A k \in 1..Len(cigar) :
          cigar[k][1] = 4 =>
              \/ \A j \in 1..(k - 1) : cigar[j][1] = 5
              \/ \A j \in (k + 1)..Len(cigar) : cigar[j][1] = 5
    /\ \E k \in 1..Len(cigar) : cigar[k][1] \in {0, 7, 8}

Cigars(maxOps) ==
    {c \in UNION {[1..m -> CigarOps \X (1..MaxOpLen)] : m \in 1..maxOps} :
        WellFormed(c)}

\* an aligned read with the given CIGAR at reference position 10: bases
\* A, C, A, C, ..., quality 30 and agreement 1 throughout
AlignedRead(cigar) ==
    [cigar |-> cigar, pos |-> 10,
     seq |-> [k \in 1..QueryLen(cigar) |-> IF k % 2 = 1 THEN 65 ELSE 67],
     quals |-> [k \in 1..QueryLen(cigar) |-> 30],
     agrees |-> [k \in 1..QueryLen(cigar) |-> 1]]

CigarInit ==
    /\ alnRec \in {AlignedRead(c) : c \in Cigars(MaxCigarOps)}
    /\ layout = NoResult
    /\ cigarStr = NoResult
    /\ CodecIdle
    /\ CallerIdle
    /\ PosIdle
    /\ MergeIdle
    /\ RescueIdle
    /\ StagesIdle

CallmakeLayoutTuple ==
    /\ layout = NoResult
    /\ layout' = makeLayoutTuple(alnRec)
    /\ UNCHANGED <<alnRec, cigarStr, codecVars, callerVars, posVars, mergeVars,
                   rescueVars, stageVars>>

CallgetCigarString ==
    /\ layout # NoResult
    /\ layout.status = "ok"
    /\ cigarStr = NoResult
    /\ cigarStr' = [status |-> "ok", text |-> cGetCigarString(layout.PosList)]
    /\ UNCHANGED <<alnRec, layout, codecVars, callerVars, posVars, mergeVars,
                   rescueVars, stageVars>>

CigarNext ==
    \/ CallmakeLayoutTuple
    \/ CallgetCigarString

SpecCigar == CigarInit /\ [][CigarNext]_vars

\* makeLayoutTuple has run, or getCigarString after it
LayoutBuilt == layout # NoResult /\ layout # Idle

CigarStringBuilt == cigarStr # NoResult /\ cigarStr # Idle

\* what C8 promises of a read once it has been expanded and re-collapsed
RoundTrips ==
    /\ LayoutBuilt =>
          /\ layout.status = "ok"
          /\ Cardinality({k \in 1..Len(layout.PosList) :
                             layout.PosList[k].operation # 68})
                = Len(alnRec.seq)
    /\ CigarStringBuilt => cigarStr.text = CigarText(alnRec.cigar)

\* C8 as stated: for every well-formed CIGAR, expanding the read with
\* makeLayoutTuple and re-collapsing with getCigarString gives back the
\* original list of (operation, length) pairs, and the number of non-deletion
\* positions is the read length.
C8_CigarRoundTrip_Original == RoundTrips

\* C8 amended: for every well-formed CIGAR made only of M, I, D and S
\* operations, expanding the read with makeLayoutTuple and re-collapsing with
\* getCigarString gives back the original list of (operation, length) pairs,
\* and the number of non-deletion positions is the read length.
C8_CigarRoundTrip ==
    (LayoutBuilt /\ \A k \in 1..Len(alnRec.cigar) :
                       alnRec.cigar[k][1] \in {0, 1, 2, 4})
    => RoundTrips

\* a read aligned as 2S1M1D2M was expanded to six positions, five of them
\* read bases, and re-collapsed to 2S1M1D2M
C8_Witness ==
    /\ CigarStringBuilt
    /\ alnRec.cigar = <<<<4, 2>>, <<0, 1>>, <<2, 1>>, <<0, 2>>>>
    /\ Len(layout.PosList) = 6
    /\ Len(alnRec.seq) = 5
    /\ cigarStr.text = <<<<2, 83>>, <<1, 77>>, <<1, 68>>, <<2, 77>>>>

----------------------------------------------------------------------------
(* PyLayout: a read's layout and its alignment fields (MPA) *)

\* d[k] = v on a dictionary held as a function
SetTag(d, k, v) == [x \in DOMAIN d \cup {k} |-> IF x = k THEN v ELSE d[x]]

\* del d[k]
DelTag(d, k) == [x \in DOMAIN d \ {k} |-> d[x]]

\* PyLayout.__init__ on what makeLayoutTuple returned for the read
PyLayout(r, layoutPositions, firstMapped) ==
    [positions |-> layoutPositions, firstMapped |-> firstMapped,
     mapq |-> r.mapq, InitPos |-> r.pos, flag |-> r.flag,
     tagDict |-> [t \in DOMAIN r.tags \ {"PV", "FA"} |-> r.tags[t]],
     rnext |-> r.mrnm, pnext |-> r.mpos, tlen |-> r.tlen,
     isMerged |-> ("MP" \in DOMAIN r.tags /\ r.tags["MP"] = "T"),
     is_reverse |-> r.is_reverse, mergeAdjusted |-> FALSE]

\* PyLayout.fromread
fromread(r) ==
    PyLayout(r, makeLayoutTuple(r).PosList, makeLayoutTuple(r).firstMapped)

\* PyLayout.getSeqArr: the bases of the positions that are not deletions and
\* have an agreement > -1
getSeqArr(positions) ==
    LET Keep(p) == p.operation # 68 /\ p.agreement > -1
        kept == SelectSeq(positions, Keep)
    IN  [k \in 1..Len(kept) |-> kept[k].base]

\* PyLayout.cGetRefPosForFirstPos: i.pos - count at the first "M"; the C
\* function falls off its end, returning 0, when there is none
cGetRefPosForFirstPos(positions) ==
    IF \E k \in 1..Len(positions) : positions[k].operation = 77
    THEN LET k == CHOOSE j \in 1..Len(positions) :
                     /\ positions[j].operation = 77
                     /\ \A i \in 1..(j - 1) : positions[i].operation # 77
         IN  positions[k].pos - (k - 1)
    ELSE 0

\* PyLayout.cGetLastRefPos: the last "M" position plus the number of
\* positions after it; countFromMPos is read before it is ever written when
\* the layout holds no "M", so that the result is then any integer
cGetLastRefPos(positions, uninit) ==
    IF \E k \in 1..Len(positions) : positions[k].operation = 77
    THEN LET k == CHOOSE j \in 1..Len(positions) :
                     /\ positions[j].operation = 77
                     /\ \A i \in (j + 1)..Len(positions) :
                           positions[i].operation # 77
         IN  positions[k].pos + (Len(positions) - k)
    ELSE uninit + Len(positions)

\* PyLayout.cGetAgreement
cGetAgreement(positions) ==
    LET Keep(p) == p.agreement > -1
        kept == SelectSeq(positions, Keep)
    IN  [k \in 1..Len(kept) |-> kept[k].agreement]

\* PyLayout.cGetMergedPositions
cGetMergedPositions(positions) ==
    LET Keep(p) == p.merged /\ p.readPos > -1
        kept == SelectSeq(positions, Keep)
    IN  [k \in 1..Len(kept) |-> kept[k].readPos]

\* PyLayout.cGetMergeAgreements
cGetMergeAgreements(positions) ==
    LET Keep(p) == p.mergeAgreed = 2 /\ p.readPos > -1
        kept == SelectSeq(positions, Keep)
    IN  [k \in 1..Len(kept) |-> kept[k].readPos]

\* PyLayout.cGetGenomicDiscordantPositions
cGetGenomicDiscordantPositions(L) ==
    LET Keep(p) == p.mergeAgreed = 0 /\ p.pos >= 0
        kept == SelectSeq(L.positions, Keep)
    IN  IF ~L.isMerged THEN <<>> ELSE [k \in 1..Len(kept) |-> kept[k].pos]

\* PyLayout.cGetReadDiscordantPositions
cGetReadDiscordantPositions(L) ==
    LET Keep(p) == p.mergeAgreed = 0 /\ p.readPos >= 0
        kept == SelectSeq(L.positions, Keep)
    IN  IF ~L.isMerged THEN <<>> ELSE [k \in 1..Len(kept) |-> kept[k].readPos]

\* PyLayout.update_tags
update_tags(L) ==
    LET t0 == SetTag(SetTag(L.tagDict, "PV", cGetQual(L.positions)),
                     "FA", cGetAgreement(L.positions))
        MP_Arr == cGetMergedPositions(L.positions)
        MA_Arr == cGetMergeAgreements(L.positions)
        GenDiscPos == cGetGenomicDiscordantPositions(L)
        ReadDiscPos == cGetReadDiscordantPositions(L)
        t1 == IF Len(MP_Arr) # 0 THEN SetTag(t0, "PM", MP_Arr) ELSE t0
        t2 == IF Len(MA_Arr) # 0 THEN SetTag(t1, "MA", MA_Arr) ELSE t1
        t3 == IF Len(GenDiscPos) # 0
              THEN SetTag(SetTag(t2, "DG", GenDiscPos), "DR", ReadDiscPos)
              ELSE t2
        t4 == SetTag(SetTag(SetTag(SetTag(SetTag(t3, "ot", L.tlen),
                  "mp", L.pnext), "om", L.mapq), "op", L.InitPos), "MP", "T")
    IN  IF L.isMerged /\ ~L.mergeAdjusted
        THEN [L EXCEPT !.tagDict = DelTag(t4, "MD"), !.mapq = 255,
                       !.mergeAdjusted = TRUE]
        ELSE [L EXCEPT !.tagDict = t0]

\* PyLayout.update
update(L, uninit) ==
    LET U == update_tags(L)
    IN  IF U.isMerged
        THEN [U EXCEPT
                !.tlen = cGetLastRefPos(U.positions, uninit)
                         - cGetRefPosForFirstPos(U.positions) + 1,
                !.pnext = 0,
                !.rnext = "=",
                !.flag = 2 + (IF U.is_reverse THEN 16 ELSE 32),
                !.positions = [k \in 1..Len(U.positions) |->
                                  [U.positions[k] EXCEPT !.readPos = k - 1]]]
        ELSE U

\* PyLayout.test_merge_success
test_merge_success(L) ==
    /\ L.isMerged
    /\ \A k \in 1..Len(L.positions) : L.positions[k].operation # 78

\* PyLayout.getAlignmentStart: the reference coordinate of the first "M";
\* the function returns nothing (None) when the layout holds no "M", and
\* __str__ then fails on None + 1
getAlignmentStart(positions) ==
    IF \E k \in 1..Len(positions) : positions[k].operation = 77
    THEN [status |-> "ok",
          pos |-> positions[CHOOSE j \in 1..Len(positions) :
                              /\ positions[j].operation = 77
                              /\ \A i \in 1..(j - 1) :
                                    positions[i].operation # 77].pos]
    ELSE [status |-> "None"]

\* PyLayout.__str__: update(), the sequence and quality strings, getFlag()
\* (which calls update() again) and the columns of the SAM record. L is the
\* layout as the call leaves it.
PyLayout_str(L, uninit) ==
    LET U == update(L, uninit)
        seq == getSeqArr(U.positions)
        qual == cGetQualString(U.positions)
        V == update(U, uninit)
        start == getAlignmentStart(V.positions)
    IN  IF Len(seq) # Len(qual) THEN [status |-> "Tim", L |-> U]
        ELSE IF start.status = "None" THEN [status |-> "TypeError", L |-> V]
        ELSE [status |-> "ok", L |-> V,
              text |-> [flag |-> V.flag, pos |-> start.pos + 1,
                        mapq |-> V.mapq,
                        cigar |-> cGetCigarString(V.positions),
                        rnext |-> V.rnext, pnext |-> V.pnext + 1,
                        tlen |-> V.tlen, seq |-> seq, qual |-> qual,
                        tags |-> V.tagDict]]

----------------------------------------------------------------------------
(* Merging the layouts of two overlapping mates (MPA) *)

\* bound: largest number of positions of a mate's layout
MaxLayoutLen == 3

\* bound: largest reference coordinate at which a mate's alignment starts
MaxStart == 2

\* the base qualities a mate carries, the same at each of its bases
MergeQuals == {10, 30}

\* number of reference bases a CIGAR spans
RECURSIVE RefLen(_)
RefLen(cigar) ==
    IF cigar = <<>> THEN 0
    ELSE (IF Head(cigar)[1] \in {0, 2, 3, 7, 8} THEN Head(cigar)[2] ELSE 0)
         + RefLen(Tail(cigar))

\* number of positions of the layout of a CIGAR
RECURSIVE LayoutLen(_)
LayoutLen(cigar) ==
    IF cigar = <<>> THEN 0 ELSE Head(cigar)[2] + LayoutLen(Tail(cigar))

\* the CIGARs of the mates: M, I, D and S only, insertions and deletions
\* between matches, at most MaxLayoutLen positions
MateCigars(maxLen) ==
    {c \in UNION {[1..m -> {0, 1, 2, 4} \X (1..maxLen)] : m \in 1..MaxCigarOps} :
        /\ WellFormed(c)
        /\ LayoutLen(c) <= maxLen
        /\ \A k \in 1..Len(c) :
              c[k][1] \in {1, 2} =>
                  /\ \E j \in 1..(k - 1) : c[j][1] = 0
                  /\ \E j \in (k + 1)..Len(c) : c[j][1] = 0}

\* a mapped mate of a proper pair, as the aligner wrote it
Mate(cigar, pos, seq, q, is_reverse) ==
    [cigar |-> cigar, pos |-> pos, seq |-> seq,
     quals |-> [k \in 1..Len(seq) |-> q],
     agrees |-> [k \in 1..Len(seq) |-> 1],
     mapq |-> 60, flag |-> IF is_reverse THEN 147 ELSE 99,
     tags |-> [t \in {"MD"} |-> "md"], mrnm |-> "chr1",
     mpos |-> 0, tlen |-> 0, is_reverse |-> is_reverse]

\* read 1 of a pair: every base an "A"
Mates1(maxLen) ==
    {Mate(c, p, [k \in 1..QueryLen(c) |-> 65], q, FALSE) :
        c \in MateCigars(maxLen), p \in 0..MaxStart, q \in MergeQuals}

\* read 2 of a pair: every base an "A" or a "C"
Mates2(maxLen) ==
    UNION {{Mate(c, p, sq, q, TRUE) : sq \in [1..QueryLen(c) -> {65, 67}]} :
              c \in MateCigars(maxLen), p \in 0..MaxStart, q \in MergeQuals}

\* ReadsOverlap: the two alignments share a reference base
ReadsOverlap(read1, read2) ==
    /\ read1.pos < read2.pos + RefLen(read2.cigar)
    /\ read2.pos < read1.pos + RefLen(read1.cigar)

\* the loop of cMergeLayoutsToList over L1[offset:], and the tail L2[count:]
\* it appends. Each entry of the list carries the index in L2 of the
\* position object it is (from2, 0 when it is no object of L2), the branch
\* that appended it (how) and the index of the position of L2 the branch
\* looked at (with2).  The k-th entry is appended while the loop is at the
\* k-th position of L1.
RECURSIVE MergeLoop(_, _, _, _)
MergeLoop(rest1, P2, count, List) ==
    IF rest1 = <<>>
    THEN [status |-> "ok", Bool |-> TRUE,
          List |-> List \o [k \in 1..(Len(P2) - Min2(count, Len(P2))) |->
                               [p |-> P2[count + k], from2 |-> count + k,
                                how |-> "tail", with2 |-> count + k]]]
    ELSE IF count >= Len(P2) THEN [status |-> "IndexError"]
    ELSE LET p1 == Head(rest1)
             p2 == P2[count + 1]
         IN  IF p1.operation = p2.operation
             THEN MergeLoop(Tail(rest1), P2, count + 1,
                      Append(List, [p |-> cMergePositions(p1, p2), from2 |-> 0,
                                    how |-> "merged", with2 |-> count + 1]))
             ELSE IF p1.operation = 68
             THEN MergeLoop(Tail(rest1), P2, count,
                      Append(List, [p |-> p1, from2 |-> 0,
                                    how |-> "pos1", with2 |-> count + 1]))
             ELSE IF p2.operation = 68
             THEN MergeLoop(Tail(rest1), P2, count + 1,
                      Append(List, [p |-> p2, from2 |-> count + 1,
                                    how |-> "pos2", with2 |-> count + 1]))
             ELSE MergeLoop(Tail(rest1), P2, count + 1,
                      Append(List, [p |-> cMergePositions(p1, p2), from2 |-> 0,
                                    how |-> "merged", with2 |-> count + 1]))

\* the layout that the local name L1 refers to after lines 454-457
LocalL1(A1, A2) ==
    IF cGetRefPosForFirstPos(A1.positions) > cGetRefPosForFirstPos(A2.positions)
    THEN A2 ELSE A1

\* offset, line 458
MergeOffset(A1, A2) ==
    cGetRefPosForFirstPos(A2.positions)
        - cGetRefPosForFirstPos(LocalL1(A1, A2).positions)

\* cMergeLayoutsToList: when L1 starts after L2 the local L1 is rebound to
\* L2, and L2 is left as it was
cMergeLayoutsToList(A1, A2) ==
    LET S1 == LocalL1(A1, A2)
        offset == MergeOffset(A1, A2)
        head == PySlice(S1.positions, 0, offset)
    IN  MergeLoop(PySlice(S1.positions, offset, Len(S1.positions)),
                  A2.positions, 0,
                  [k \in 1..Len(head) |-> [p |-> head[k], from2 |-> 0,
                                           how |-> "head", with2 |-> 0]])

\* MergeLayoutsToLayout: L1 is modified in place and returned; the positions
\* of L2 that went into the merged list are the same objects there, and
\* update() renumbers them
MergeLayoutsToLayout(A1, A2, uninit) ==
    LET r == cMergeLayoutsToList(A1, A2)
    IN  IF r.status # "ok"
        THEN [status |-> r.status, L1 |-> A1, L2 |-> A2]
        ELSE IF r.Bool = FALSE
        THEN [status |-> "None",
              L1 |-> [A1 EXCEPT !.tagDict = SetTag(@, "MP", "F")],
              L2 |-> [A2 EXCEPT !.tagDict = SetTag(@, "MP", "F")]]
        ELSE [status |-> "ok",
              L1 |-> update([A1 EXCEPT
                               !.positions = [k \in 1..Len(r.List) |-> r.List[k].p],
                               !.tagDict = SetTag(@, "MP", "T"),
                               !.isMerged = TRUE], uninit),
              L2 |-> [A2 EXCEPT !.positions =
                        [j \in 1..Len(@) |->
                            IF \E k \in 1..Len(r.List) : r.List[k].from2 = j
                            THEN [@[j] EXCEPT !.readPos =
                                    (CHOOSE k \in 1..Len(r.List) :
                                         r.List[k].from2 = j) - 1]
                            ELSE @[j]]]]

\* the values an uninitialised C int is read as
UninitInts == {-1, 0}

MergeInit ==
    /\ \E read1 \in Mates1(MaxLayoutLen), read2 \in Mates2(MaxLayoutLen) :
          /\ ReadsOverlap(read1, read2)
          /\ L1 = fromread([read1 EXCEPT !.mpos = read2.pos])
          /\ L2 = fromread([read2 EXCEPT !.mpos = read1.pos])
    /\ mergeRet = NoResult
    /\ stdout = NoResult
    /\ CodecIdle
    /\ CallerIdle
    /\ PosIdle
    /\ CigarIdle
    /\ RescueIdle
    /\ StagesIdle

\* MergeLayoutsToLayout has returned
MergeReturned == mergeRet # NoResult /\ mergeRet # Idle

\* MergeLayoutsToLayout(l1, l2), called on its own
CallMergeLayoutsToLayout ==
    /\ mergeRet = NoResult
    /\ \E uninit \in UninitInts :
          mergeRet' = MergeLayoutsToLayout(L1, L2, uninit)
    /\ UNCHANGED <<L1, L2, stdout, codecVars, callerVars, posVars, cigarVars,
                   rescueVars, stageVars>>

\* MPA2stdout, the body of its loop for a proper pair whose reads overlap:
\* l1 and l2 are built from read 1 and read 2, merged, and either the merged
\* record or the two reads are written. An exception of the merge or of
\* str() leaves the function; the branch for a returned None calls a method
\* of None.
MPA2stdout ==
    /\ mergeRet = NoResult
    /\ \E uninit \in UninitInts, uninit2 \in UninitInts :
          \E r \in {MergeLayoutsToLayout(L1, L2, uninit)} :
             IF r.status = "IndexError"
             THEN /\ mergeRet' = r
                  /\ stdout' = [status |-> "IndexError", written |-> <<>>]
             ELSE IF r.status = "None"
             THEN /\ mergeRet' = r
                  /\ stdout' = [status |-> "AttributeError", written |-> <<>>]
             ELSE IF test_merge_success(r.L1)
             THEN \E t \in {PyLayout_str(r.L1, uninit2)} :
                     /\ mergeRet' = [r EXCEPT !.L1 = t.L]
                     /\ stdout' = IF t.status = "ok"
                                  THEN [status |-> "ok", written |-> <<t.text>>]
                                  ELSE [status |-> t.status, written |-> <<>>]
             ELSE /\ mergeRet' = r
                  /\ stdout' = [status |-> "ok",
                                written |-> <<"read1", "read2">>]
    /\ UNCHANGED <<L1, L2, codecVars, callerVars, posVars, cigarVars,
                   rescueVars, stageVars>>

\* the BAM operation code of a CIGAR character of "MIDNSHP=X"
CigarCharToCigarOp(c) ==
    CHOOSE op \in CigarOps : CigarOpToCigarChar(op) = c

\* the aligned read that a reader of the written SAM record gets
ReadRecord(text) ==
    [cigar |-> [k \in 1..Len(text.cigar) |->
                   <<CigarCharToCigarOp(text.cigar[k][2]), text.cigar[k][1]>>],
     pos |-> text.pos - 1, seq |-> text.seq,
     quals |-> text.tags["PV"], agrees |-> text.tags["FA"],
     mapq |-> text.mapq, flag |-> text.flag, tags |-> text.tags,
     mrnm |-> text.rnext, mpos |-> text.pnext - 1, tlen |-> text.tlen,
     is_reverse |-> (text.flag \div 16) % 2 = 1]

\* PyLayout.fromread on the merged record that MPA2stdout wrote: the layout
\* of the merged read in a later pass over the output
Callfromread ==
    /\ MergeReturned
    /\ mergeRet.status = "ok"
    /\ stdout.status = "ok"
    /\ Len(stdout.written) = 1
    /\ LET r == ReadRecord(stdout.written[1])
       IN  /\ QueryLen(r.cigar) = Len(r.seq)
           /\ Len(r.quals) = Len(r.seq)
           /\ Len(r.agrees) = Len(r.seq)
           /\ makeLayoutTuple(r).status = "ok"
           /\ mergeRet' = [mergeRet EXCEPT !.status = "reread",
                                           !.L1 = fromread(r)]
    /\ UNCHANGED <<L1, L2, stdout, codecVars, callerVars, posVars, cigarVars,
                   rescueVars, stageVars>>

\* PyLayout.update() called on a layout that MergeLayoutsToLayout returned or
\* left unmerged, or that was read back
Callupdate ==
    /\ MergeReturned
    /\ mergeRet.status \in {"ok", "IndexError", "reread"}
    /\ \E which \in {"L1", "L2"}, uninit \in UninitInts :
          mergeRet' = [mergeRet EXCEPT ![which] = update(@, uninit)]
    /\ UNCHANGED <<L1, L2, stdout, codecVars, callerVars, posVars, cigarVars,
                   rescueVars, stageVars>>

MergeNext ==
    \/ CallMergeLayoutsToLayout
    \/ MPA2stdout
    \/ Callfromread
    \/ Callupdate

SpecMerge == MergeInit /\ [][MergeNext]_vars

\* MergeLayoutsToLayout has returned a layout that test_merge_success accepts
MergeSucceeded ==
    /\ MergeReturned
    /\ mergeRet.status = "ok"
    /\ test_merge_success(mergeRet.L1)

\* the layout that starts first on the reference, and the other one
LeftLayout ==
    IF cGetRefPosForFirstPos(L1.positions) <= cGetRefPosForFirstPos(L2.positions)
    THEN L1 ELSE L2

RightLayout ==
    IF cGetRefPosForFirstPos(L1.positions) <= cGetRefPosForFirstPos(L2.positions)
    THEN L2 ELSE L1

\* the positions of the left layout before the first position of the right
\* layout
LeftOfOverlap ==
    PySlice(LeftLayout.positions, 0,
            cGetRefPosForFirstPos(RightLayout.positions)
            - cGetRefPosForFirstPos(LeftLayout.positions))

\* the positions of the right layout after the last position of the left
\* layout
RightOfOverlap ==
    PySlice(RightLayout.positions,
            Max2(0, cGetRefPosForFirstPos(LeftLayout.positions)
                    + Len(LeftLayout.positions)
                    - cGetRefPosForFirstPos(RightLayout.positions)),
            Len(RightLayout.positions))

\* C4: after MergeLayoutsToLayout succeeds, the positions of the left layout
\* before the overlap window and those of the right layout after it appear in
\* the merged layout, in order, with every field (reference coordinate,
\* in-read coordinate, base, operation, quality, agreement, merge flags) as it
\* was in the source layout.
C4_MergeKeepsFlanks ==
    MergeSucceeded =>
        LET m == mergeRet.L1.positions
        IN  /\ Len(m) >= Len(LeftOfOverlap) + Len(RightOfOverlap)
            /\ PySlice(m, 0, Len(LeftOfOverlap)) = LeftOfOverlap
            /\ PySlice(m, Len(m) - Len(RightOfOverlap), Len(m)) = RightOfOverlap

\* every position of the layout is a match
MatchOnly(L) == \A k \in 1..Len(L.positions) : L.positions[k].operation = 77

\* X covers [a,b] and Y covers [c,d] with a <= c <= b <= d, both match-only,
\* and their bases are the same on [c,b]
AbutOverlap(X, Y) ==
    /\ MatchOnly(X)
    /\ MatchOnly(Y)
    /\ LET a == X.positions[1].pos
           b == X.positions[Len(X.positions)].pos
           c == Y.positions[1].pos
           d == Y.positions[Len(Y.positions)].pos
       IN  /\ a <= c /\ c <= b /\ b <= d
           /\ \A x \in c..b :
                 X.positions[x - a + 1].base = Y.positions[x - c + 1].base

\* the merged layout has d-a+1 positions at a..d, agreement on [c,b] and no
\* disagreement
MergedSpan(X, Y) ==
    LET a == X.positions[1].pos
        b == X.positions[Len(X.positions)].pos
        c == Y.positions[1].pos
        d == Y.positions[Len(Y.positions)].pos
        m == mergeRet.L1.positions
    IN  /\ mergeRet.status = "ok"
        /\ Len(m) = d - a + 1
        /\ \A k \in 1..Len(m) :
              /\ m[k].pos = a + k - 1
              /\ m[k].mergeAgreed # 0
              /\ m[k].pos \in c..b => m[k].mergeAgreed = 2

\* C5: for two match-only layouts covering [a,b] and [c,d], a <= c <= b <= d,
\* with identical bases on [c,b], the merged layout has exactly d-a+1
\* positions with consecutive reference coordinates a..d, every position in
\* [c,b] is marked merged-agreement and none merged-disagreement.
C5_MatchOnlyMerge ==
    MergeReturned =>
        /\ AbutOverlap(L1, L2) => MergedSpan(L1, L2)
        /\ AbutOverlap(L2, L1) => MergedSpan(L2, L1)

\* the layout carries the tag t with the value v
HasTag(L, t, v) == t \in DOMAIN L.tagDict /\ L.tagDict[t] = v

\* the merge of the pair ended without a layout that test_merge_success
\* accepts
MergeFailed ==
    /\ MergeReturned
    /\ mergeRet.status # "reread"
    /\ ~(mergeRet.status = "ok" /\ test_merge_success(mergeRet.L1))

\* C11: when the two layouts cannot be merged, MergeLayoutsToLayout raises no
\* exception, returns None and leaves both input layouts tagged MP=F, and
\* MPA2stdout then writes both mates unmerged.
C11_MergeFailureSignal ==
    MergeFailed =>
        /\ mergeRet.status = "None"
        /\ HasTag(mergeRet.L1, "MP", "F")
        /\ HasTag(mergeRet.L2, "MP", "F")
        /\ stdout # NoResult =>
              stdout = [status |-> "ok", written |-> <<"read1", "read2">>]

\* the reference coordinates of the positions of a layout that are matched
\* to the reference
RefMapped(positions) ==
    {positions[k].pos : k \in {j \in 1..Len(positions) :
                                  positions[j].operation = 77}}

\* the smallest and the largest element of a non-empty set of integers
MinOf(S) == CHOOSE x \in S : \A y \in S : x <= y

MaxOf(S) == CHOOSE x \in S : \A y \in S : x >= y

\* C16: after a successful merge the merged layout has mate position 0, mate
\* contig "=", mapping quality 255 and a fragment length of (last
\* reference-mapped coordinate - first reference-mapped coordinate + 1) of the
\* merged positions, also when the layout starts or ends with soft-clipped or
\* inserted positions.
C16_MergedFields ==
    MergeSucceeded =>
        LET m == mergeRet.L1
        IN  /\ m.pnext = 0
            /\ m.rnext = "="
            /\ m.mapq = 255
            /\ m.tlen = MaxOf(RefMapped(m.positions))
                        - MinOf(RefMapped(m.positions)) + 1

\* the layout X carries the four backup tags, and they hold the fragment
\* length, mate position, mapping quality and start position of the layout P
HoldsBackupOf(X, P) ==
    /\ {"ot", "mp", "om", "op"} \subseteq DOMAIN X.tagDict
    /\ X.tagDict["ot"] = P.tlen
    /\ X.tagDict["mp"] = P.pnext
    /\ X.tagDict["om"] = P.mapq
    /\ X.tagDict["op"] = P.InitPos

\* the layout X, built as the layout P and never merged, has no backup tag
\* and the fragment length, mate position, mapping quality and flag of P
UntouchedBy(X, P) ==
    /\ {"ot", "mp", "om", "op"} \cap DOMAIN X.tagDict = {}
    /\ X.tlen = P.tlen
    /\ X.pnext = P.pnext
    /\ X.mapq = P.mapq
    /\ X.flag = P.flag

\* this claim's reading of the state: mergeRet.L1 is the merged layout of the
\* pair (as merged, or as read back from the written record) when the merge
\* went through, L1 is that layout before the merge, and every layout with
\* isMerged unset is an unmerged one
BackupsKept ==
    /\ mergeRet.L1.isMerged => HoldsBackupOf(mergeRet.L1, L1)
    /\ ~mergeRet.L1.isMerged => UntouchedBy(mergeRet.L1, L1)
    /\ ~mergeRet.L2.isMerged => UntouchedBy(mergeRet.L2, L2)

\* C17: the backup tags ot, mp, om, op are written only for a merged layout,
\* and after any number of update() / serialization calls on it they hold the
\* fragment length, mate position, mapping quality and start position from
\* before the merge; update() on an unmerged layout adds none of them and
\* leaves tlen, pnext, mapq and flag unchanged.
C17_BackupTags == MergeReturned => BackupsKept

\* the indices of the positions marked merged-disagreement, in layout order
Discordant(positions) ==
    LET idx == [k \in 1..Len(positions) |-> k]
        Keep(k) == positions[k].mergeAgreed = 0
    IN  SelectSeq(idx, Keep)

\* the index in the read's sequence of the base of the k-th position: the
\* number of positions before it that are not deletions
BaseIndex(positions, k) ==
    Cardinality({j \in 1..(k - 1) : positions[j].operation # 68})

\* DG and DR are present together exactly when a position is marked
\* merged-disagreement, and they list, index by index, the genomic and the
\* in-read coordinate of those positions
ParallelDiscordantTags(m) ==
    LET d == Discordant(m.positions)
    IN  /\ ("DG" \in DOMAIN m.tagDict) <=> (d # <<>>)
        /\ ("DR" \in DOMAIN m.tagDict) <=> (d # <<>>)
        /\ d # <<>> =>
              /\ Len(m.tagDict["DG"]) = Len(d)
              /\ Len(m.tagDict["DR"]) = Len(d)
              /\ \A k \in 1..Len(d) :
                    /\ m.tagDict["DG"][k] = m.positions[d[k]].pos
                    /\ m.tagDict["DR"][k] \in
                          {m.positions[d[k]].readPos,
                           BaseIndex(m.positions, d[k])}

\* C18: on a merged layout the DG and DR tags are parallel arrays: present
\* together exactly when at least one position is marked merged-disagreement,
\* of the same length, and for every index k DG[k] and DR[k] are the genomic
\* and the in-read coordinate of the same merged-disagreement position.
C18_DiscordantTagsParallel ==
    MergeSucceeded => ParallelDiscordantTags(mergeRet.L1)

\* the coordinates a position must have for its operation: a deletion a
\* reference coordinate only, an insertion or soft-clip an in-read coordinate
\* only, a match both
CoordinatesFitOperation(p) ==
    /\ p.operation = 68 => p.pos >= 0 /\ p.readPos = -1
    /\ p.operation \in {73, 83} => p.readPos >= 0 /\ p.pos = -1
    /\ p.operation = 77 => p.pos >= 0 /\ p.readPos >= 0

AllCoordinatesFit(L) ==
    \A k \in 1..Len(L.positions) : CoordinatesFitOperation(L.positions[k])

\* C19: every position of every layout, built from a read or produced by
\* MergeLayoutsToLayout, also after update(), has the coordinates of its
\* operation: a deletion a reference coordinate and the in-read coordinate -1,
\* an insertion or soft-clip an in-read coordinate and the reference
\* coordinate -1, a match both.
C19_CoordinatesByOperation ==
    /\ AllCoordinatesFit(L1)
    /\ AllCoordinatesFit(L2)
    /\ MergeReturned =>
          /\ AllCoordinatesFit(mergeRet.L1)
          /\ AllCoordinatesFit(mergeRet.L2)

\* C20: the merge takes as left anchor whichever argument starts at the lower
\* reference coordinate, so that MergeLayoutsToLayout(L1, L2) and
\* MergeLayoutsToLayout(L2, L1) end alike and produce the same sequence of
\* positions.
C20_MergeOrderIndependent ==
    (MergeReturned /\ mergeRet.status \in {"ok", "IndexError"}) =>
        LET swapped == MergeLayoutsToLayout(L2, L1, 0)
        IN  /\ swapped.status = mergeRet.status
            /\ mergeRet.status = "ok" =>
                  swapped.L1.positions = mergeRet.L1.positions

----------------------------------------------------------------------------
(* Barcode rescue dictionaries (BCFastq.pyx) *)

\* bound: length of a barcode
BarcodeLen == 2

\* bound: largest number of distinct barcodes of the index fastq
MaxBarcodes == 2

\* bound: largest number of reads that carry one barcode
MaxCount == 2

\* bound: largest number of mismatches n
MaxMismatches == 2

\* the alphabet of hamming_cousins: A C G T
Alphabet == {65, 67, 71, 84}

Barcodes == [1..BarcodeLen -> Alphabet]

\* the strings over the alphabet that differ from s at exactly i positions
hamming_cousins_exact(s, i) ==
    {t \in [DOMAIN s -> Alphabet] :
        \E P \in SUBSET DOMAIN s :
            /\ Cardinality(P) = i
            /\ \A k \in DOMAIN s : (k \in P) <=> (t[k] # s[k])}

\* hamming_cousins: the strings at 0, 1, ..., n mismatches from s
hamming_cousins(s, n) == UNION {hamming_cousins_exact(s, i) : i \in 0..n}

\* the orders in which a dictionary with these keys may be iterated: each is
\* a ranking of the keys
IterOrders(keys) ==
    {f \in [keys -> 1..Cardinality(keys)] :
        \A x, y \in keys : x # y => f[x] # f[y]}

BarcodeRescueDictsAboveMinFam(histDict, minFam, n, order) ==
    LET TrueFamDict == [x \in {b \in DOMAIN histDict : histDict[b] > minFam}
                           |-> x]
        keys == UNION {hamming_cousins(y, n) : y \in DOMAIN TrueFamDict}
    IN  [status |-> "ok",
         TrueFamDict |-> TrueFamDict,
         rescueHistDict |->
            IF Cardinality(DOMAIN TrueFamDict) = 0 THEN <<>>
            ELSE [h \in keys |->
                    CHOOSE y \in DOMAIN TrueFamDict :
                        /\ h \in hamming_cousins(y, n)
                        /\ \A z \in DOMAIN TrueFamDict :
                              h \in hamming_cousins(z, n) => order[z] <= order[y]]]

\* BarcodeRescueDicts on the barcode histogram of the index fastq: the dict
\* comprehension stores, for a key h that several true barcodes reach, the
\* one that TrueFamDict.iterkeys() yields last
BarcodeRescueDicts(histDict, minFam, n, order) ==
    LET TrueFamDict == [x \in {b \in DOMAIN histDict : histDict[b] >= minFam}
                           |-> x]
        keys == UNION {hamming_cousins(y, n) : y \in DOMAIN TrueFamDict}
    IN  [status |-> "ok",
         TrueFamDict |-> TrueFamDict,
         rescueHistDict |->
            IF Cardinality(DOMAIN TrueFamDict) = 0 THEN <<>>
            ELSE [h \in keys |->
                    CHOOSE y \in DOMAIN TrueFamDict :
                        /\ h \in hamming_cousins(y, n)
                        /\ \A z \in DOMAIN TrueFamDict :
                              h \in hamming_cousins(z, n) => order[z] <= order[y]]]

\* the histograms "uniq -c" can give: every barcode it lists was seen at
\* least once
HistDicts(maxBarcodes) ==
    UNION {[B -> 1..MaxCount] :
              B \in {X \in SUBSET Barcodes : Cardinality(X) <= maxBarcodes}}

RescueInit ==
    /\ rescueArgs \in [histDict : HistDicts(MaxBarcodes), minFam : 1..(MaxCount + 1),
                       n : 0..MaxMismatches]
    /\ rescueRet = NoResult
    /\ CodecIdle
    /\ CallerIdle
    /\ PosIdle
    /\ CigarIdle
    /\ MergeIdle
    /\ StagesIdle

CallBarcodeRescueDicts ==
    /\ rescueRet = NoResult
    /\ \E order \in IterOrders({b \in DOMAIN rescueArgs.histDict :
                                   rescueArgs.histDict[b] >= rescueArgs.minFam}) :
          rescueRet' = BarcodeRescueDicts(rescueArgs.histDict, rescueArgs.minFam,
                                          rescueArgs.n, order)
    /\ UNCHANGED <<rescueArgs, codecVars, callerVars, posVars, cigarVars,
                   mergeVars, stageVars>>

RescueNext == CallBarcodeRescueDicts

SpecRescue == RescueInit /\ [][RescueNext]_vars

\* number of positions at which two barcodes differ
HammingDistance(s, t) == Cardinality({k \in DOMAIN s : s[k] # t[k]})

RescueReturned == rescueRet # NoResult /\ rescueRet # Idle

\* C10: BarcodeRescueDicts registers as true families exactly the barcodes
\* whose count is >= minFam; every barcode within Hamming distance n of a true
\* barcode (the true barcode included) is a key of the rescue lookup, and its
\* value is a true barcode within Hamming distance n of the key; when no
\* barcode reaches minFam the rescue lookup is empty.
C10_RescueDicts ==
    RescueReturned =>
        LET hist == rescueArgs.histDict
            trueFam == DOMAIN rescueRet.TrueFamDict
            lookup == rescueRet.rescueHistDict
        IN  /\ trueFam = {b \in DOMAIN hist : hist[b] >= rescueArgs.minFam}
            /\ \A y \in trueFam : \A h \in Barcodes :
                  HammingDistance(h, y) <= rescueArgs.n =>
                      /\ h \in DOMAIN lookup
                      /\ lookup[h] \in trueFam
                      /\ HammingDistance(h, lookup[h]) <= rescueArgs.n
            /\ (trueFam = {}) => DOMAIN lookup = {}

\* "AA" was seen MaxCount times with minFam = MaxCount and n = 1: it is a true
\* family and "AT" is rescued to it
C10_Witness ==
    /\ RescueReturned
    /\ rescueArgs.minFam = MaxCount
    /\ rescueArgs.n = 1
    /\ DOMAIN rescueArgs.histDict = {<<65, 65>>}
    /\ rescueArgs.histDict[<<65, 65>>] = MaxCount
    /\ <<65, 65>> \in DOMAIN rescueRet.TrueFamDict
    /\ rescueRet.rescueHistDict[<<65, 84>>] = <<65, 65>>

----------------------------------------------------------------------------
(* Background calls and their polling loops (BCFastq.pyx) *)

\* the exit statuses a child process is modelled to end with
ExitStatuses == {0, 1}

\* the loop bound written in BarcodeSortBoth
BSPollLimit == 300

\* the loop bound written in pairedFastqConsolidate
PFCPollLimit == 3600

\* poll() calls are counted up to this number in BarcodeSortBoth
MaxPolls == 302

\* Popen.poll(): returncode becomes the exit status once the child has exited
poll(child) == child

\* the child started with Popen exits, at a time of its own choosing
ProcExit ==
    /\ pc \in {"check_call", "foreground", "loop", "body",
              "cutadapt1", "numChecks", "poll1", "poll2"}
    /\ proc = <<>>
    /\ \E status \in ExitStatuses : proc' = <<status>>
    /\ UNCHANGED <<pc, returncode, checks, polls, exc>>
    /\ UNCHANGED <<codecVars, callerVars, posVars, cigarVars, mergeVars,
                   rescueVars, groupVars, shadeVars,
                   bamVars>>

\* BarcodeSortBoth: the branch on returncode after the first poll
BSFirstPoll(rc) ==
    IF rc = <<0>> THEN "returned"
    ELSE IF rc # <<>> THEN "raised"
    ELSE "loop"

\* BarcodeSortBoth(parallel=True) after Popen(BSstring1): check_call sorts
\* read 2 in the foreground
SortInit ==
    /\ pc = "check_call"
    /\ proc = <<>>
    /\ returncode = <<>>
    /\ checks = 0
    /\ polls = 0
    /\ exc = <<>>
    /\ CodecIdle
    /\ CallerIdle
    /\ PosIdle
    /\ CigarIdle
    /\ MergeIdle
    /\ RescueIdle
    /\ GroupIdle
    /\ ShadeIdle
    /\ BamIdle

\* check_call(BSstring2) returns or raises; then the first poll and its branch
BSB_check_call ==
    /\ pc = "check_call"
    /\ \E status \in ExitStatuses :
          IF status # 0
          THEN /\ pc' = "raised"
               /\ exc' = [type |-> "CalledProcessError", cmd |-> "BSstring2"]
               /\ UNCHANGED <<returncode, checks, polls>>
          ELSE /\ returncode' = poll(proc)
               /\ polls' = polls + 1
               /\ checks' = 0
               /\ pc' = BSFirstPoll(poll(proc))
               /\ exc' = IF BSFirstPoll(poll(proc)) = "raised"
                         THEN [type |-> "CalledProcessError", cmd |-> "BSstring1"]
                         ELSE exc
    /\ UNCHANGED proc
    /\ UNCHANGED <<codecVars, callerVars, posVars, cigarVars, mergeVars,
                   rescueVars, groupVars, shadeVars,
                   bamVars>>

\* one test of "while checks < 300"; the body begins with "checks = 0"
BSB_while ==
    /\ pc = "loop"
    /\ IF checks < BSPollLimit
       THEN pc' = "body" /\ checks' = 0 /\ exc' = exc
       ELSE /\ pc' = "raised"
            /\ checks' = checks
            /\ exc' = [type |-> "CalledProcessError", cmd |-> "none"]
    /\ UNCHANGED <<proc, returncode, polls>>
    /\ UNCHANGED <<codecVars, callerVars, posVars, cigarVars, mergeVars,
                   rescueVars, groupVars, shadeVars,
                   bamVars>>

\* the rest of the body: sleep one second, poll, return or count
BSB_body ==
    /\ pc = "body"
    /\ returncode' = poll(proc)
    /\ polls' = Min2(polls + 1, MaxPolls)
    /\ IF poll(proc) = <<0>>
       THEN pc' = "returned" /\ checks' = checks
       ELSE pc' = "loop" /\ checks' = checks + 1
    /\ UNCHANGED <<proc, exc>>
    /\ UNCHANGED <<codecVars, callerVars, posVars, cigarVars, mergeVars,
                   rescueVars, groupVars, shadeVars,
                   bamVars>>

SortNext ==
    \/ ProcExit
    \/ BSB_check_call
    \/ BSB_while
    \/ BSB_body

\* the interpreter keeps running BarcodeSortBoth; nothing makes the child exit.
\* polls stops counting at MaxPolls, the loop does not stop there
SpecSort ==
    /\ SortInit
    /\ [][SortNext]_vars
    /\ WF_vars(BSB_check_call)
    /\ WF_vars(BSB_while)
    /\ WF_vars(BSB_body)

\* C12: BarcodeSortBoth with parallel=True always terminates: it returns the
\* output paths or raises, at the latest after 300 one-second polls.
C12_SortTerminates == <>(pc \in {"returned", "raised"})

\* the branch with every exit of the child taken for a success
PFCOutcomeAnyExit(rc) ==
    IF rc # <<>> THEN [pc |-> "returned", exc |-> <<>>]
    ELSE [pc |-> "raised",
          exc |-> [type |-> "FunctionCallException", cmd |-> "cStr",
                   msg |-> "took more than an hour"]]

\* pairedFastqConsolidate: the branch on returncode after the polling loop
PFCOutcome(rc) ==
    IF rc = <<0>> THEN [pc |-> "returned", exc |-> <<>>]
    ELSE IF rc # <<>>
    THEN [pc |-> "raised",
          exc |-> [type |-> "FunctionCallException", cmd |-> "cStr",
                   msg |-> "non-zero exit status"]]
    ELSE [pc |-> "raised",
          exc |-> [type |-> "FunctionCallException", cmd |-> "cStr",
                   msg |-> "took more than an hour"]]

\* pairedFastqConsolidate(parallel=True) after Popen(cStr): read 1 is
\* consolidated in the foreground
ConsInit ==
    /\ pc = "foreground"
    /\ proc = <<>>
    /\ returncode = <<>>
    /\ checks = 0
    /\ polls = 0
    /\ exc = <<>>
    /\ CodecIdle
    /\ CallerIdle
    /\ PosIdle
    /\ CigarIdle
    /\ MergeIdle
    /\ RescueIdle
    /\ GroupIdle
    /\ ShadeIdle
    /\ BamIdle

\* singleFastqConsolidate(fq1) returns, or its exception leaves the function
PFC_singleFastqConsolidate ==
    /\ pc = "foreground"
    /\ \E done \in BOOLEAN :
          IF done
          THEN pc' = "loop" /\ checks' = 0 /\ exc' = exc
          ELSE /\ pc' = "raised"
               /\ checks' = checks
               /\ exc' = [type |-> "propagated", cmd |-> "none",
                          msg |-> "singleFastqConsolidate"]
    /\ UNCHANGED <<proc, returncode, polls>>
    /\ UNCHANGED <<codecVars, callerVars, posVars, cigarVars, mergeVars,
                   rescueVars, groupVars, shadeVars,
                   bamVars>>

\* one test of "while PFC_Call.poll() is None and checks < 3600": poll() is
\* called first; the body sleeps and counts, the exit goes to the branch
PFC_loop ==
    /\ pc = "loop"
    /\ returncode' = poll(proc)
    /\ polls' = polls + 1
    /\ IF poll(proc) = <<>> /\ checks < PFCPollLimit
       THEN pc' = "loop" /\ checks' = checks + 1 /\ exc' = exc
       ELSE /\ pc' = PFCOutcome(poll(proc)).pc
            /\ exc' = PFCOutcome(poll(proc)).exc
            /\ checks' = checks
    /\ UNCHANGED proc
    /\ UNCHANGED <<codecVars, callerVars, posVars, cigarVars, mergeVars,
                   rescueVars, groupVars, shadeVars,
                   bamVars>>

ConsNext ==
    \/ ProcExit
    \/ PFC_singleFastqConsolidate
    \/ PFC_loop

SpecCons == ConsInit /\ [][ConsNext]_vars

\* pairedFastqConsolidate has left its polling loop
PolledOut == pc \in {"returned", "raised"} /\ polls > 0

\* what pairedFastqConsolidate does once the loop is left
PolledOutcomes ==
    /\ pc = "returned" => proc = <<0>> /\ returncode = <<0>>
    /\ (PolledOut /\ returncode # <<0>>) =>
          /\ pc = "raised"
          /\ exc.type = "FunctionCallException"
          /\ exc.cmd = "cStr"
    /\ (PolledOut /\ returncode = <<>>) => checks = PFCPollLimit

\* C13 as stated: pairedFastqConsolidate with parallel=True polls the
\* background consolidation at most 3600 times, returns the paths only if the
\* process exited with status 0, and raises FunctionCallException with the
\* command string if it exited non-zero or was still running at the limit.
C13_ConsolidatePolling_Original ==
    /\ polls <= PFCPollLimit
    /\ PolledOutcomes

\* C13: pairedFastqConsolidate with parallel=True calls poll() at most 3601
\* times and sleeps one second at most 3600 times between the calls; it
\* returns the paths only if the process exited with status 0, and raises
\* FunctionCallException with the command string if it exited non-zero or
\* was still running at the poll made after the 3600th sleep.
C13_ConsolidatePolling ==
    /\ polls <= PFCPollLimit + 1
    /\ checks <= PFCPollLimit
    /\ PolledOutcomes

\* the child was still running at every poll: the function gave up
C13_Witness ==
    /\ pc = "raised"
    /\ returncode = <<>>
    /\ checks = PFCPollLimit
    /\ polls = PFCPollLimit + 1
    /\ exc.cmd = "cStr"

----------------------------------------------------------------------------
(* singleFastqConsolidate: one consensus record per barcode run (BCFastq.pyx) *)

\* longest input file of the consolidation
MaxInFq == 4

\* largest SetSize tried; every call in the source passes a positive SetSize
\* (the default, 100): the remainder numproc % SetSize is then defined
MaxSetSize == 3

\* the barcodes of the input records: "AA" and "AC"
ConsBarcodes == {<<65, 65>>, <<65, 67>>}

\* the input records: a barcode, one base and one quality character
ConsRecs ==
    [BS : ConsBarcodes, sequence : [1..1 -> {65, 67}], quality : [1..1 -> {63}]]

\* the key of groupby: the barcode of a record
getBS(rec) == rec.BS

\* groupby(inFq, key=getBS): the runs of records with equal barcodes, each as
\* <<barcode, length>>
BarcodeRuns(fq) == groupby([k \in 1..Len(fq) |-> getBS(fq[k])])

\* the write of a full set that empties the list without writing it
WriteSetDropped(n, size, written, list) ==
    IF n % size = 0
    THEN [outputHandle |-> written, StringList |-> <<>>]
    ELSE [outputHandle |-> written, StringList |-> list]

\* "if not (numproc % SetSize)": the write of a full set; the files are
\* compiled with cdivision=True, so % is the remainder of C
WriteSet(n, size, written, list) ==
    IF n % size = 0
    THEN [outputHandle |-> written \o list, StringList |-> <<>>]
    ELSE [outputHandle |-> written, StringList |-> list]

GroupInit ==
    /\ \E n \in 0..MaxInFq : inFq \in [1..n -> ConsRecs]
    /\ SetSize \in 1..MaxSetSize
    /\ fqPos = 0
    /\ StringList = <<>>
    /\ numproc = 0
    /\ outputHandle = <<>>
    /\ consPc = "loop"
    /\ CodecIdle
    /\ CallerIdle
    /\ PosIdle
    /\ CigarIdle
    /\ MergeIdle
    /\ RescueIdle
    /\ PollIdle
    /\ ShadeIdle
    /\ BamIdle

\* one iteration of "for bc4fq, fqRecGen in groupby(inFq, key=getBS)"
ConsolidateRun ==
    /\ consPc = "loop"
    /\ fqPos < Len(inFq)
    /\ \E run \in {BarcodeRuns(inFq)[numproc + 1]} :
       \E ffq \in {[name |-> run[1],
                    cons |-> cFastFisherFlattening(
                                 SubSeq(inFq, fqPos + 1, fqPos + run[2]))]} :
       \E w \in {WriteSet(numproc + 1, SetSize, outputHandle,
                          Append(StringList, ffq))} :
          /\ fqPos' = fqPos + run[2]
          /\ numproc' = numproc + 1
          /\ StringList' = w.StringList
          /\ outputHandle' = w.outputHandle
    /\ UNCHANGED <<inFq, SetSize, consPc>>
    /\ UNCHANGED <<codecVars, callerVars, posVars, cigarVars, mergeVars,
                   rescueVars, pollVars, shadeVars,
                   bamVars>>

\* after the loop: the rest of the list is written and the files are closed
ConsolidateClose ==
    /\ consPc = "loop"
    /\ fqPos = Len(inFq)
    /\ outputHandle' = outputHandle \o StringList
    /\ StringList' = <<>>
    /\ consPc' = "done"
    /\ UNCHANGED <<inFq, SetSize, fqPos, numproc>>
    /\ UNCHANGED <<codecVars, callerVars, posVars, cigarVars, mergeVars,
                   rescueVars, pollVars, shadeVars,
                   bamVars>>

GroupNext ==
    \/ ConsolidateRun
    \/ ConsolidateClose

SpecGroup == GroupInit /\ [][GroupNext]_vars

\* the first records of the maximal runs of equal barcodes of fq
RunStarts(fq) ==
    {i \in 1..Len(fq) : i = 1 \/ fq[i].BS # fq[i - 1].BS}

\* the last record of the run that starts at record i
RunEnd(fq, i) ==
    CHOOSE j \in i..Len(fq) :
        /\ \A m \in i..j : fq[m].BS = fq[i].BS
        /\ j = Len(fq) \/ fq[j + 1].BS # fq[i].BS

\* the start of the k-th run
KthRunStart(fq, k) ==
    CHOOSE i \in RunStarts(fq) :
        Cardinality({j \in RunStarts(fq) : j <= i}) = k

\* the output is one record per maximal run, in input order, with the
\* barcode of the run as name and its length as FM
OneRecordPerRun ==
    /\ Len(outputHandle) = Cardinality(RunStarts(inFq))
    /\ \A k \in 1..Len(outputHandle) :
          /\ outputHandle[k].name = inFq[KthRunStart(inFq, k)].BS
          /\ outputHandle[k].cons.FM =
                 RunEnd(inFq, KthRunStart(inFq, k)) - KthRunStart(inFq, k) + 1
    /\ SumSeq([k \in 1..Len(outputHandle) |-> outputHandle[k].cons.FM])
           = Len(inFq)
    /\ \A b \in ConsBarcodes :
          Cardinality({k \in 1..Len(outputHandle) : outputHandle[k].name = b})
              = Cardinality({i \in RunStarts(inFq) : inFq[i].BS = b})

\* C14: singleFastqConsolidate emits exactly one consensus record per
\* maximal run of records with the same barcode, in input order, with FM the
\* length of the run (the FM values sum to the number of input records); the
\* records do not depend on SetSize, and a barcode in k separate runs yields
\* k records.
C14_OneRecordPerRun == consPc = "done" => OneRecordPerRun

\* unsorted input AA, AA, AC, AA written in sets of two: three records with
\* FM 2, 1, 1
C14_Witness ==
    /\ consPc = "done"
    /\ SetSize = 2
    /\ Len(inFq) = MaxInFq
    /\ inFq[1].BS = <<65, 65>>
    /\ inFq[2].BS = <<65, 65>>
    /\ inFq[3].BS = <<65, 67>>
    /\ \A i \in 4..Len(inFq) : inFq[i].BS = <<65, 65>>
    /\ Len(outputHandle) = 3
    /\ outputHandle[1].cons.FM = 2
    /\ outputHandle[3].name = <<65, 65>>

----------------------------------------------------------------------------
(* RescuePairedFastqShading: the barcode written to each pair (BCFastq.pyx) *)

\* most read pairs in the input of the shading
MaxPairs == 2

\* largest number of salting bases
MaxHead == 1

\* the index reads of the shading input: barcodes over A and C
ShadeBarcodes == [1..BarcodeLen -> {65, 67}]

\* the barcode histograms of the index fastq
ShadeHistDicts(maxBarcodes) ==
    {h \in HistDicts(maxBarcodes) : DOMAIN h \subseteq ShadeBarcodes}

\* one record of each input file: read 1, read 2 and the index read
ShadeTriples ==
    [rec1 : [sequence : {<<65, 67>>, <<65, 71>>}],
     rec2 : [sequence : {<<84, 84>>}],
     index_read : [sequence : ShadeBarcodes]]

\* the lookups with rescueDict asked first
RescueLookupRescueFirst(indexSeq, rescueDict, TrueFamDict) ==
    IF indexSeq \in DOMAIN rescueDict THEN rescueDict[indexSeq]
    ELSE IF indexSeq \in DOMAIN TrueFamDict THEN TrueFamDict[indexSeq]
    ELSE indexSeq

\* the lookups of the loop body: TrueFamDict first, then rescueDict, then the
\* index sequence as read
RescueLookup(indexSeq, rescueDict, TrueFamDict) ==
    IF indexSeq \in DOMAIN TrueFamDict THEN TrueFamDict[indexSeq]
    ELSE IF indexSeq \in DOMAIN rescueDict THEN rescueDict[indexSeq]
    ELSE indexSeq

\* rec1.sequence[1:head + 1] + indexSeq + rec2.sequence[1:head + 1]
SaltedBS(rec1, rec2, indexSeq, head) ==
    PySlice(rec1.sequence, 1, head + 1) \o indexSeq
        \o PySlice(rec2.sequence, 1, head + 1)

\* cMakeTagComment: the comment of a record, which carries the barcode
cMakeTagComment(saltedBS, rec) == [BS |-> saltedBS]

\* RescueShadingWrapper has built the dictionaries with BarcodeRescueDicts;
\* the index fastq has as many records as the read fastqs, or one fewer
ShadeInit ==
    /\ \E hist \in ShadeHistDicts(MaxBarcodes), minFam \in 1..(MaxCount + 1),
          n \in 0..MaxMismatches, head \in 0..MaxHead :
          \E order \in IterOrders({b \in DOMAIN hist : hist[b] >= minFam}) :
          \E d \in {BarcodeRescueDicts(hist, minFam, n, order)} :
             shadeArgs = [rescueDict |-> d.rescueHistDict,
                          TrueFamDict |-> d.TrueFamDict, head |-> head]
    /\ \E nPairs \in 0..MaxPairs :
          \E recs \in [1..nPairs -> ShadeTriples] :
          \E nIndex \in {k \in {nPairs - 1, nPairs} : k >= 0} :
             inHandles = [recs |-> recs, nIndex |-> nIndex]
    /\ shadePos = 0
    /\ outHandles = <<>>
    /\ shadePc = "open"
    /\ CodecIdle
    /\ CallerIdle
    /\ PosIdle
    /\ CigarIdle
    /\ MergeIdle
    /\ RescueIdle
    /\ PollIdle
    /\ GroupIdle
    /\ BamIdle

\* the files are opened; bLen reads the first index record, and next() raises
\* StopIteration when the index fastq is empty
ShadeOpen ==
    /\ shadePc = "open"
    /\ shadePc' = IF inHandles.nIndex = 0 THEN "StopIteration" ELSE "loop"
    /\ UNCHANGED <<shadeArgs, inHandles, shadePos, outHandles>>
    /\ UNCHANGED <<codecVars, callerVars, posVars, cigarVars, mergeVars,
                   rescueVars, pollVars, groupVars,
                   bamVars>>

\* one iteration of "for rec1 in inHandle1"
ShadePair ==
    /\ shadePc = "loop"
    /\ shadePos < Len(inHandles.recs)
    /\ IF shadePos >= inHandles.nIndex
       THEN shadePc' = "Tim" /\ UNCHANGED <<shadePos, outHandles>>
       ELSE \E t \in {inHandles.recs[shadePos + 1]} :
            \E saltedBS \in {SaltedBS(t.rec1, t.rec2,
                                      RescueLookup(t.index_read.sequence,
                                                   shadeArgs.rescueDict,
                                                   shadeArgs.TrueFamDict),
                                      shadeArgs.head)} :
               /\ outHandles' = Append(outHandles,
                      [rec1 |-> [sequence |-> t.rec1.sequence,
                                 comment |-> cMakeTagComment(saltedBS, t.rec1)],
                       rec2 |-> [sequence |-> t.rec2.sequence,
                                 comment |-> cMakeTagComment(saltedBS, t.rec2)]])
               /\ shadePos' = shadePos + 1
               /\ shadePc' = "loop"
    /\ UNCHANGED <<shadeArgs, inHandles>>
    /\ UNCHANGED <<codecVars, callerVars, posVars, cigarVars, mergeVars,
                   rescueVars, pollVars, groupVars,
                   bamVars>>

\* the loop is over: the output files are closed and their paths returned
ShadeClose ==
    /\ shadePc = "loop"
    /\ shadePos = Len(inHandles.recs)
    /\ shadePc' = "done"
    /\ UNCHANGED <<shadeArgs, inHandles, shadePos, outHandles>>
    /\ UNCHANGED <<codecVars, callerVars, posVars, cigarVars, mergeVars,
                   rescueVars, pollVars, groupVars,
                   bamVars>>

ShadeNext ==
    \/ ShadeOpen
    \/ ShadePair
    \/ ShadeClose

SpecShade == ShadeInit /\ [][ShadeNext]_vars

\* the barcode the k-th pair is to carry: the index sequence itself if it is
\* a true family, else its rescue value if it is a rescue key, else itself
AssignedBarcode(k) ==
    LET indexSeq == inHandles.recs[k].index_read.sequence
    IN  IF indexSeq \in DOMAIN shadeArgs.TrueFamDict THEN indexSeq
        ELSE IF indexSeq \in DOMAIN shadeArgs.rescueDict
        THEN shadeArgs.rescueDict[indexSeq]
        ELSE indexSeq

\* the output is the input pairs read so far, in order, and all of them when
\* the function has returned
OnePairPerPair ==
    /\ Len(outHandles) = shadePos
    /\ shadePc = "done" => Len(outHandles) = Len(inHandles.recs)
    /\ \A k \in 1..Len(outHandles) :
          /\ outHandles[k].rec1.sequence = inHandles.recs[k].rec1.sequence
          /\ outHandles[k].rec2.sequence = inHandles.recs[k].rec2.sequence

\* C15 as stated: RescuePairedFastqShading writes one output pair per input
\* pair, in input order, and gives each pair the barcode: the index sequence
\* itself if it is a true family, else the rescue value, else the index
\* sequence as read.
C15_ShadedBarcode_Original ==
    /\ OnePairPerPair
    /\ \A k \in 1..Len(outHandles) :
          /\ outHandles[k].rec1.comment.BS = AssignedBarcode(k)
          /\ outHandles[k].rec2.comment.BS = AssignedBarcode(k)

\* C15: RescuePairedFastqShading writes one output pair per input pair, in
\* input order, and gives both reads of each pair the barcode made of bases
\* 2..head+1 of read 1, then the index sequence itself if it is a true
\* family, else its rescue value if it is a rescue key, else the index
\* sequence as read, then bases 2..head+1 of read 2; with head = 0 that is
\* the middle part alone.  A true-family barcode is never replaced.
C15_ShadedBarcode ==
    /\ OnePairPerPair
    /\ \A k \in 1..Len(outHandles) :
          LET t == inHandles.recs[k]
              h == shadeArgs.head
              bs == SubSeq(t.rec1.sequence, 2, h + 1) \o AssignedBarcode(k)
                        \o SubSeq(t.rec2.sequence, 2, h + 1)
          IN  /\ outHandles[k].rec1.comment.BS = bs
              /\ outHandles[k].rec2.comment.BS = bs
              /\ h = 0 => bs = AssignedBarcode(k)
              /\ t.index_read.sequence \in DOMAIN shadeArgs.TrueFamDict =>
                    SubSeq(bs, h + 1, h + BarcodeLen) = t.index_read.sequence

\* two pairs, no salting: the first index read is a true family that the
\* rescue lookup maps to another true family and keeps its barcode, the
\* second is rescued to a true family
C15_Witness ==
    /\ shadePc = "done"
    /\ shadeArgs.head = 0
    /\ Len(outHandles) = 2
    /\ LET i1 == inHandles.recs[1].index_read.sequence
           i2 == inHandles.recs[2].index_read.sequence
       IN  /\ i1 \in DOMAIN shadeArgs.TrueFamDict
           /\ shadeArgs.rescueDict[i1] # i1
           /\ outHandles[1].rec1.comment.BS = i1
           /\ i2 \notin DOMAIN shadeArgs.TrueFamDict
           /\ i2 \in DOMAIN shadeArgs.rescueDict
           /\ outHandles[2].rec1.comment.BS = shadeArgs.rescueDict[i2]

----------------------------------------------------------------------------
(* The overlap walk of cMergeLayoutsToList (MPA) *)

\* MergeLayoutsToLayout has returned a merged layout for L1 and L2
WalkDone == MergeReturned /\ mergeRet.status = "ok"

\* the list that cMergeLayoutsToList built for L1 and L2
WalkList == cMergeLayoutsToList(L1, L2).List

\* the positions the walk takes one by one, and the index of the first of
\* them that lies in the overlap
WalkedPositions == LocalL1(L1, L2).positions

OverlapStart == Min2(MergeOffset(L1, L2), Len(WalkedPositions)) + 1

\* C21: in the overlap walk a deletion on one side does not advance the
\* cursor of the other side: the deletion is emitted and the other side's
\* current position is merged or emitted afterwards, so that no non-deletion
\* position of either layout inside the overlap is missing from the output.
C21_NoPositionDropped ==
    WalkDone =>
        /\ \A k \in OverlapStart..Len(WalkedPositions) :
              WalkedPositions[k].operation # 68 => WalkList[k].how = "merged"
        /\ \A j \in 1..Len(L2.positions) :
              L2.positions[j].operation # 68 =>
                  \E k \in 1..Len(WalkList) :
                      /\ WalkList[k].with2 = j
                      /\ WalkList[k].how \in {"merged", "tail"}

----------------------------------------------------------------------------
(* cMergePositions on positions of different kinds (MPA) *)

\* cMergePositions has run on pos1 and pos2
PositionsMerged == mergedPos # NoResult /\ mergedPos # Idle

\* exactly one of the two positions is a soft-clip
ClipAgainstCall ==
    /\ PositionsMerged
    /\ (pos1.operation = 83) # (pos2.operation = 83)

\* C22: given one soft-clipped position and one real call, in either argument
\* order and whether or not the bases are equal, cMergePositions returns the
\* operation and base of the real call with the agreed combination of the two
\* qualities.
C22_ClipAgainstCall ==
    ClipAgainstCall =>
        LET call == IF pos1.operation = 83 THEN pos2 ELSE pos1
        IN  /\ mergedPos.operation = call.operation
            /\ mergedPos.base = call.base
            /\ mergedPos.quality = MergeAgreedQualities(pos1.quality, pos2.quality)

\* the two positions have different operations and neither is a soft-clip
KindConflict ==
    /\ PositionsMerged
    /\ pos1.operation # pos2.operation
    /\ pos1.operation # 83
    /\ pos2.operation # 83

\* C23: given two positions of different operation kinds, neither of them a
\* soft-clip, cMergePositions returns a position with base N, the sentinel
\* quality -137 and the merged-disagreement mark, and test_merge_success
\* rejects a merged layout that holds this position.
C23_KindConflict ==
    KindConflict =>
        /\ mergedPos.base = 78
        /\ mergedPos.quality = -137
        /\ mergedPos.merged
        /\ mergedPos.mergeAgreed = 0
        /\ ~test_merge_success([positions |-> <<mergedPos>>, isMerged |-> TRUE])

----------------------------------------------------------------------------
(* BamRescue: collapsing the records of one group (BCBam.pyx) *)

\* most records in one group
MaxGroup == 3

\* largest family size of an input record
MaxFM == 2

\* the default mismatch limit
DEFAULT_MMLIM == 2

\* the barcodes (query names) of the records: "AA", "AC" and "CC"
BamBarcodes == {<<65, 65>>, <<65, 67>>, <<67, 67>>}

\* the optional fields of an input record: a list of (tag, value); reads have
\* one base, so PV and FA hold one number
BamTags(fm) == <<<<"FM", fm>>, <<"FP", 1>>, <<"PV", 30>>, <<"FA", fm>>>>

\* the records of a group
BamRecs ==
    {[query_name |-> b, query_sequence |-> <<c>>, tags |-> BamTags(fm)] :
        b \in BamBarcodes, c \in {65, 67}, fm \in 1..MaxFM}

\* AlignedSegment.has_tag
has_tag(read, t) == \E k \in 1..Len(read.tags) : read.tags[k][1] = t

\* AlignedSegment.get_tag / opt.  set_tags(read.tags + [...]) leaves the old
\* entry of a tag in the list; which entry of a repeated tag is read is not
\* settled by the format, so it is the first or the last (dup)
get_tag(read, t, dup) ==
    LET hits == {k \in 1..Len(read.tags) : read.tags[k][1] = t}
        k == IF dup = "first"
             THEN CHOOSE x \in hits : \A y \in hits : x <= y
             ELSE CHOOSE x \in hits : \A y \in hits : x >= y
    IN  read.tags[k][2]

\* read.set_tags(read.tags + more)
add_tags(read, more) == [read EXCEPT !.tags = @ \o more]

\* StringHD: the number of the first bLen characters that differ
StringHD(str1, str2, bLen) ==
    Cardinality({k \in 1..bLen : str1[k] # str2[k]})

\* pBarcodeHD
pBarcodeHD(query, cmp, bLen) == StringHD(query.query_name, cmp.query_name, bLen)

\* update_rec(a, b): a takes up b
update_rec(a, b, dup) ==
    LET newFM == get_tag(a, "FM", dup) + get_tag(b, "FM", dup)
        newRC == get_tag(a, "RC", dup) + get_tag(b, "RC", dup)
        newFP == IF get_tag(a, "FP", dup) # 0 THEN get_tag(b, "FP", dup)
                 ELSE get_tag(a, "FP", dup)
        a_seq == a.query_sequence[1]
        b_seq == b.query_sequence[1]
        a_qual == get_tag(a, "PV", dup)
        b_qual == get_tag(b, "PV", dup)
        a_FA == get_tag(a, "FA", dup)
        b_FA == get_tag(b, "FA", dup)
        same == a_seq = b_seq
    IN  [query_name |-> a.query_name,
         query_sequence |-> <<IF ~same /\ b_qual > a_qual THEN b_seq ELSE a_seq>>,
         tags |-> a.tags \o
             <<<<"FM", newFM>>, <<"RC", newRC>>, <<"FP", newFP>>,
               <<"PV", IF same THEN MergeAgreedQualities(a_qual, b_qual)
                       ELSE MergeDiscQualities(a_qual, b_qual)>>,
               <<"FA", IF same THEN a_FA + b_FA
                       ELSE IF b_qual > a_qual THEN b_FA ELSE a_FA>>>>]

\* the pair loops of BamRescueCore, from the pair (i, j) on; the lists are
\* 1-based here
RECURSIVE CorePairs(_, _, _, _, _, _)
CorePairs(recs, i, j, bLen, mmlim, dup) ==
    IF i > Len(recs) THEN recs
    ELSE IF j > Len(recs) THEN CorePairs(recs, i + 1, i + 2, bLen, mmlim, dup)
    ELSE IF pBarcodeHD(recs[i], recs[j], bLen) < mmlim
    THEN LET ri == add_tags(recs[i], <<<<"RA", 0>>>>)
             rj == add_tags(recs[j], <<<<"RA", 1>>>>)
         IN  CorePairs([recs EXCEPT ![i] = ri, ![j] = update_rec(rj, ri, dup)],
                       i, j + 1, bLen, mmlim, dup)
    ELSE CorePairs(recs, i, j + 1, bLen, mmlim, dup)

\* bam2ffq: the fastq record of a read sent to realignment
bam2ffq(read, dup) ==
    [query_name |-> read.query_name, query_sequence |-> read.query_sequence,
     PV |-> get_tag(read, "PV", dup), FA |-> get_tag(read, "FA", dup),
     FM |-> get_tag(read, "FM", dup), FP |-> get_tag(read, "FP", dup),
     RC |-> get_tag(read, "RC", dup)]

RECURSIVE SelectReads(_, _, _)
SelectReads(recs, dup, keep) ==
    IF recs = <<>> THEN <<>>
    ELSE LET ra == get_tag(Head(recs), "RA", dup)
             rest == SelectReads(Tail(recs), dup, keep)
         IN  IF keep = "bam" /\ ra < 0 THEN <<Head(recs)>> \o rest
             ELSE IF keep = "fq" /\ ra > 0
             THEN <<bam2ffq(Head(recs), dup)>> \o rest
             ELSE rest

\* BamRescueCore
BamRescueCore(recs, bLen, mmlim, dup) ==
    IF Len(recs) = 1 THEN [bamList |-> recs, fq_text |-> <<>>]
    ELSE LET after == CorePairs(recs, 1, 2, bLen, mmlim, dup)
         IN  [bamList |-> SelectReads(after, dup, "bam"),
              fq_text |-> SelectReads(after, dup, "fq")]

\* BamRescue has one group of mapped records in hand.  bLen is declared with
\* the value 0 and never assigned: the length of the first query name goes
\* to another name, blen.
BamInit ==
    /\ \E n \in 1..MaxGroup : inGroup \in [1..n -> BamRecs]
    /\ recList = inGroup
    /\ bamArgs \in [mmlim : 1..DEFAULT_MMLIM, bLen : {0}, dup : {"first", "last"}]
    /\ output_bam = <<>>
    /\ fq_text = <<>>
    /\ bamPc = "tag"
    /\ CodecIdle
    /\ CallerIdle
    /\ PosIdle
    /\ CigarIdle
    /\ MergeIdle
    /\ RescueIdle
    /\ PollIdle
    /\ GroupIdle
    /\ ShadeIdle

\* each read of the group gets RC = -1 if it has no RC, and RA = -1
TagGroup ==
    /\ bamPc = "tag"
    /\ recList' = [k \in 1..Len(recList) |->
                      IF has_tag(recList[k], "RC")
                      THEN add_tags(recList[k], <<<<"RA", -1>>>>)
                      ELSE add_tags(recList[k], <<<<"RC", -1>>, <<"RA", -1>>>>)]
    /\ bamPc' = "core"
    /\ UNCHANGED <<bamArgs, inGroup, output_bam, fq_text>>
    /\ UNCHANGED <<codecVars, callerVars, posVars, cigarVars, mergeVars,
                   rescueVars, pollVars, groupVars, shadeVars>>

\* recList, fq_text = BamRescueCore(recList, bLen, mmlim, n_written)
CallBamRescueCore ==
    /\ bamPc = "core"
    /\ \E r \in {BamRescueCore(recList, bamArgs.bLen, bamArgs.mmlim,
                               bamArgs.dup)} :
          /\ recList' = r.bamList
          /\ fq_text' = r.fq_text
    /\ bamPc' = "write"
    /\ UNCHANGED <<bamArgs, inGroup, output_bam>>
    /\ UNCHANGED <<codecVars, callerVars, posVars, cigarVars, mergeVars,
                   rescueVars, pollVars, groupVars, shadeVars>>

\* the reads kept are written to the output BAM, the text to the fastq
WriteGroup ==
    /\ bamPc = "write"
    /\ output_bam' = output_bam \o recList
    /\ bamPc' = "done"
    /\ UNCHANGED <<bamArgs, inGroup, recList, fq_text>>
    /\ UNCHANGED <<codecVars, callerVars, posVars, cigarVars, mergeVars,
                   rescueVars, pollVars, groupVars, shadeVars>>

BamNext ==
    \/ TagGroup
    \/ CallBamRescueCore
    \/ WriteGroup

SpecBam == BamInit /\ [][BamNext]_vars

\* the Hamming distance of two barcodes over their full length
BarcodeDistance(x, y) == Cardinality({k \in 1..Len(x) : x[k] # y[k]})

\* the list of tags without RC and RA
RECURSIVE OtherTags(_)
OtherTags(tags) ==
    IF tags = <<>> THEN <<>>
    ELSE IF Head(tags)[1] \in {"RC", "RA"} THEN OtherTags(Tail(tags))
    ELSE <<Head(tags)>> \o OtherTags(Tail(tags))

\* the written record is the read record but for RC and RA
SameButRescueTags(written, read) ==
    /\ written.query_name = read.query_name
    /\ written.query_sequence = read.query_sequence
    /\ OtherTags(written.tags) = OtherTags(read.tags)

\* the barcode of record i of the group is at distance mmlim or more from
\* every other barcode of the group
FarFromAll(i) ==
    \A j \in 1..Len(inGroup) :
        j # i => BarcodeDistance(inGroup[i].query_name, inGroup[j].query_name)
                     >= bamArgs.mmlim

\* C24: BamRescue collapses two records of a group only if the Hamming
\* distance of their barcodes, over the full barcode length, is below mmlim;
\* a record whose barcode differs from the others in mmlim or more positions
\* is not collapsed and is written to the output BAM unchanged but for the
\* RC and RA tags.
C24_CollapseBelowLimit ==
    bamPc = "done" =>
        /\ \A i \in 1..Len(inGroup) :
              FarFromAll(i) =>
                  \E k \in 1..Len(output_bam) :
                      SameButRescueTags(output_bam[k], inGroup[i])
        /\ (\A i \in 1..Len(inGroup) : FarFromAll(i)) =>
              /\ Len(output_bam) = Len(inGroup)
              /\ fq_text = <<>>

\* the sum of the FM values of the records passed on
PassedOnFM ==
    SumSeq([k \in 1..Len(output_bam) |->
               get_tag(output_bam[k], "FM", bamArgs.dup)])
    + SumSeq([k \in 1..Len(fq_text) |-> fq_text[k].FM])

MergedOnReference(k) ==
    /\ WalkList[k].how = "merged"
    /\ WalkedPositions[k].pos >= 0
    /\ L2.positions[WalkList[k].with2].pos >= 0

\* C28: whenever cMergeLayoutsToList merges two positions that both carry a
\* reference coordinate, the two coordinates are equal, whatever insertions,
\* deletions or soft-clips the left layout has before the overlap.
C28_MergedCoordinatesEqual ==
    WalkDone =>
        \A k \in 1..Min2(Len(WalkList), Len(WalkedPositions)) :
            MergedOnReference(k) =>
                WalkedPositions[k].pos = L2.positions[WalkList[k].with2].pos

\* the reference coordinates a layout spans
RefSpan(A) ==
    LET on == {A.positions[k].pos : k \in 1..Len(A.positions)} \ {-1}
    IN  {c \in 0..(MaxStart + 2 * MaxLayoutLen) :
            /\ \E lo \in on : lo <= c
            /\ \E hi \in on : c <= hi}

\* the positions of layout A that lie outside the span of layout B
NonOverlap(A, B) ==
    {k \in 1..Len(A.positions) :
        /\ A.positions[k].pos >= 0
        /\ A.positions[k].pos \notin RefSpan(B)}

\* the number of positions of the merged list at reference coordinate c
TimesInWalk(c) ==
    Cardinality({m \in 1..Len(WalkList) : WalkList[m].p.pos = c})

\* C29: for every overlapping pair, one mate contained in the other
\* included, cMergeLayoutsToList completes without reading past the end of
\* either list of positions, and the merged list holds every non-overlap
\* position of both layouts exactly once.
C29_WalkCompletes ==
    MergeReturned =>
        /\ mergeRet.status # "IndexError"
        /\ WalkDone =>
              /\ \A k \in NonOverlap(L1, L2) :
                    TimesInWalk(L1.positions[k].pos) = 1
              /\ \A k \in NonOverlap(L2, L1) :
                    TimesInWalk(L2.positions[k].pos) = 1

\* getSeq, getQual and getAgreement of a layout have the same length
LengthsAgree(L) ==
    /\ Len(getSeqArr(L.positions)) = Len(cGetQual(L.positions))
    /\ Len(getSeqArr(L.positions)) = Len(cGetAgreement(L.positions))

\* C30: for every layout, built from a read or returned by
\* MergeLayoutsToLayout, getSeq, getQual and getAgreement have the same
\* length, so that writing the layout as a SAM record never raises the
\* length-mismatch error.
C30_LengthsAgree ==
    /\ LengthsAgree(L1)
    /\ LengthsAgree(L2)
    /\ MergeReturned =>
          /\ LengthsAgree(mergeRet.L1)
          /\ PyLayout_str(mergeRet.L1, 0).status # "Tim"

----------------------------------------------------------------------------
(* CallCutadaptBoth (BCFastq.pyx) *)

\* the loop bound written in CallCutadaptBoth
CutadaptPollLimit == 300

\* CallCutadaptBoth after Popen(fq2Str): cutadapt for read 1 runs in the
\* foreground
CutadaptInit ==
    /\ pc = "cutadapt1"
    /\ proc = <<>>
    /\ returncode = <<>>
    /\ checks = 0
    /\ polls = 0
    /\ exc = <<>>
    /\ CodecIdle
    /\ CallerIdle
    /\ PosIdle
    /\ CigarIdle
    /\ MergeIdle
    /\ RescueIdle
    /\ GroupIdle
    /\ ShadeIdle
    /\ BamIdle

\* check_call(fq1Str) returns or raises; then numChecks = 0
CCB_check_call ==
    /\ pc = "cutadapt1"
    /\ \E status \in ExitStatuses :
          IF status # 0
          THEN /\ pc' = "raised"
               /\ exc' = [type |-> "CalledProcessError", cmd |-> "fq1Str",
                          returncode |-> <<status>>]
          ELSE /\ pc' = "numChecks"
               /\ exc' = exc
    /\ checks' = 0
    /\ UNCHANGED <<proc, returncode, polls>>
    /\ UNCHANGED <<codecVars, callerVars, posVars, cigarVars, mergeVars,
                   rescueVars, groupVars, shadeVars, bamVars>>

\* the top of "while True": the test of numChecks.  CalledProcessError is
\* given one argument there and its constructor needs two, so the exception
\* that leaves the function is a TypeError
CCB_numChecks ==
    /\ pc = "numChecks"
    /\ IF checks >= CutadaptPollLimit
       THEN /\ pc' = "raised"
            /\ exc' = [type |-> "TypeError", cmd |-> "none",
                       returncode |-> <<>>]
       ELSE /\ pc' = "poll1"
            /\ exc' = exc
    /\ UNCHANGED <<proc, returncode, checks, polls>>
    /\ UNCHANGED <<codecVars, callerVars, posVars, cigarVars, mergeVars,
                   rescueVars, groupVars, shadeVars, bamVars>>

\* if fq2Popen.poll() == 0: return outfq1, outfq2
CCB_poll1 ==
    /\ pc = "poll1"
    /\ returncode' = poll(proc)
    /\ pc' = IF poll(proc) = <<0>> THEN "returned" ELSE "poll2"
    /\ UNCHANGED <<proc, checks, polls, exc>>
    /\ UNCHANGED <<codecVars, callerVars, posVars, cigarVars, mergeVars,
                   rescueVars, groupVars, shadeVars, bamVars>>

\* elif(fq2Popen.poll() is None): count, sleep and go round; else: raise
CCB_poll2 ==
    /\ pc = "poll2"
    /\ returncode' = poll(proc)
    /\ IF poll(proc) = <<>>
       THEN /\ checks' = checks + 1
            /\ pc' = "numChecks"
            /\ exc' = exc
       ELSE /\ checks' = checks
            /\ pc' = "raised"
            /\ exc' = [type |-> "CalledProcessError", cmd |-> "fq2Str",
                       returncode |-> poll(proc)]
    /\ UNCHANGED <<proc, polls>>
    /\ UNCHANGED <<codecVars, callerVars, posVars, cigarVars, mergeVars,
                   rescueVars, groupVars, shadeVars, bamVars>>

CutadaptNext ==
    \/ ProcExit
    \/ CCB_check_call
    \/ CCB_numChecks
    \/ CCB_poll1
    \/ CCB_poll2

SpecCutadapt == CutadaptInit /\ [][CutadaptNext]_vars

\* C25: CallCutadaptBoth returns the two output paths whenever cutadapt for
\* read 2 exits with status 0 before the poll limit, at whatever moment the
\* exit falls relative to the two poll() calls of one iteration; it raises
\* only when a cutadapt call exits with a non-zero status or when the poll
\* limit is reached.
C25_CutadaptOutcome ==
    pc = "raised" =>
        \/ exc.cmd = "fq1Str"
        \/ proc \in {<<status>> : status \in ExitStatuses \ {0}}
        \/ checks >= CutadaptPollLimit

----------------------------------------------------------------------------
(* The bounds of the agreement counts of the Fisher flattening *)

\* a family of two or more reads has been flattened by cFastFisherFlattening
FisherFlattened ==
    /\ Len(fam) >= 2
    /\ cons # NoCons
    /\ cons.routine = "cFastFisherFlattening"
    /\ ~cons.error

\* C26: for a family of N >= 2 reads of length L over A, C, G, T and N,
\* every FA[i] that the Fisher flattening emits lies in 0..N, and ND lies in
\* 0..N*L.
C26_AgreementBounds ==
    FisherFlattened =>
        /\ \A k \in 1..famLen : 0 <= cons.FA[k] /\ cons.FA[k] <= Len(fam)
        /\ 0 <= cons.ND
        /\ cons.ND <= Len(fam) * famLen

====
